---- MODULE Spec2Model ----
(***************************************************************************)
(* A model of json5pp (src/include/json5pp.hpp): the value tree, the       *)
(* flag-parameterised recursive-descent parser over a std::istream, and    *)
(* the stringifier.  Texts are sequences of byte codes (0..255), the       *)
(* end-of-input sentinel of std::char_traits<char>::eof() is EOF.          *)
(***************************************************************************)
EXTENDS Integers, Sequences, FiniteSets, TLC

VARIABLES
    pc,       \* "value" | "text" | "parsed" | "failed" | "read"
    doc,      \* the value handed to stringify / stringify5
    sflags,   \* flags of the stringifier that produced the text (or {})
    indent,   \* indent specification I of that stringifier
    ostream,  \* what the stringifier wrote
    istream,  \* the input stream the parser reads: [txt, pos, fail, ung, dbl]
    flags,    \* flags F of the parser that ran (or {})
    v,        \* the value object the parser stored into
    error,    \* the syntax_error thrown, or NoError
    nextch,   \* what the caller's next istream.get() returned after the parse
    ret,      \* the last member call on v: its arguments, v before it, its outcome
    serial,   \* the number of elements the caller appended to v
    chain     \* the manipulators applied to the stream, in order

vars ==
    <<pc, doc, sflags, indent, ostream, istream, flags, v, error, nextch, ret, serial, chain>>

(***************************************************************************)
(* Characters                                                              *)
(***************************************************************************)
\* The printable ASCII characters 32..95 and 97..126.
PrintableLow == " !\"#$%&'()*+,-./0123456789:;<=>?@ABCDEFGHIJKLMNOPQRSTUVWXYZ[\\]^_"

PrintableHigh == "abcdefghijklmnopqrstuvwxyz{|}~"

\* The byte code of a one-character string (ASCII).
Ord(c) ==
    CASE c = "\t" -> 9
      [] c = "\n" -> 10
      [] c = "\f" -> 12
      [] c = "\r" -> 13
      [] \E i \in 1..Len(PrintableLow) : SubSeq(PrintableLow, i, i) = c ->
            31 + (CHOOSE i \in 1..Len(PrintableLow) : SubSeq(PrintableLow, i, i) = c)
      [] OTHER ->
            96 + (CHOOSE i \in 1..Len(PrintableHigh) : SubSeq(PrintableHigh, i, i) = c)

\* A string literal as the sequence of its byte codes.
Text(s) == [i \in 1..Len(s) |-> Ord(SubSeq(s, i, i))]

EOF == 0 - 1

TAB == Ord("\t")
LF == Ord("\n")
FF == Ord("\f")
CR == Ord("\r")
BS == Ord("\t") - 1
SPACE == Ord(" ")
DQUOTE == Ord("\"")
SQUOTE == Ord("'")
DOLLAR == Ord("$")
STAR == Ord("*")
PLUS == Ord("+")
COMMA == Ord(",")
MINUS == Ord("-")
DOT == Ord(".")
SLASH == Ord("/")
ZERO == Ord("0")
NINE == Ord("9")
COLON == Ord(":")
BACKSLASH == Ord("\\")
LBRACKET == Ord("[")
RBRACKET == Ord("]")
LBRACE == Ord("{")
RBRACE == Ord("}")
UNDERSCORE == Ord("_")

(***************************************************************************)
(* Flags (enum flags).  A flag set is the set of the names of its bits.    *)
(***************************************************************************)
json5_rules ==
    { "single_line_comment", "multi_line_comment", "explicit_plus_sign",
      "leading_decimal_point", "trailing_decimal_point", "infinity_number",
      "not_a_number", "hexadecimal", "single_quote", "multi_line_string",
      "trailing_comma", "unquoted_key" }

all_rules == json5_rules

parse_mask == all_rules \cup {"finished"}

stringify_mask == {"infinity_number", "not_a_number", "crlf_newline"}

\* parser<F>::has_flag / stringifier<F,I>::has_flag: any of the bits is set.
has_flag(F, bits) == (F \cap bits) # {}

(***************************************************************************)
(* Manipulators: manipulator_flags<S, C> sets the flags S and clears the   *)
(* flags C, manipulator_indent<I> gives the indent specification I.        *)
(***************************************************************************)
manipulator_flags(S, C) == [kind |-> "flags", S |-> S, C |-> C]

manipulator_indent(I) == [kind |-> "indent", I |-> I]

\* manipulator_flags<S, C>::operator-()
negate(manip) == manipulator_flags(manip.C, manip.S)

\* parser<F> >> manipulator_flags<S, C>, clearing nothing.
parser_flags_set_only(F, manip) == (F \cup manip.S) \cap parse_mask

\* parser<F> >> manipulator_flags<S, C> : parser<((F & ~C) | S) & M>
parser_flags(F, manip) == ((F \ manip.C) \cup manip.S) \cap parse_mask

\* stringifier<F, I> << manipulator_flags<S, C> : stringifier<((F & ~C) | S) & M, I>
stringifier_flags(F, manip) == ((F \ manip.C) \cup manip.S) \cap stringify_mask

\* istream >> manipulator_flags<S, C> : parser<S & parse_mask>(istream) >> manip
istream_flags(manip) == parser_flags(manip.S \cap parse_mask, manip)

\* ostream << manipulator_flags<S, C> : stringifier<S & stringify_mask, 0>(ostream) << manip
ostream_flags(manip) == stringifier_flags(manip.S \cap stringify_mask, manip)

\* namespace rule: the flag manipulators (those of four of the syntax flags, of
\* the flag sets, of the parse options and of the stringify options).
flag_rules ==
    {manipulator_flags({f}, {}) :
        f \in {"infinity_number", "not_a_number", "hexadecimal", "trailing_comma"}}
    \cup {manipulator_flags({}, {f}) :
        f \in {"infinity_number", "not_a_number", "hexadecimal", "trailing_comma"}}
    \cup { manipulator_flags({"single_line_comment", "multi_line_comment"}, {}),
           manipulator_flags({}, {"single_line_comment", "multi_line_comment"}),
           manipulator_flags({"leading_decimal_point", "trailing_decimal_point"}, {}),
           manipulator_flags({}, {"leading_decimal_point", "trailing_decimal_point"}),
           manipulator_flags({}, all_rules),
           manipulator_flags(json5_rules, {}),
           manipulator_flags({"finished"}, {}),
           manipulator_flags({}, {"finished"}),
           manipulator_flags({}, {"crlf_newline"}),
           manipulator_flags({"crlf_newline"}, {}) }

\* namespace rule: no_indent, tab_indent<1>, space_indent<2>
indent_rules == {manipulator_indent(0), manipulator_indent(0 - 1), manipulator_indent(2)}

(***************************************************************************)
(* std::istream over a fixed text: get() and unget().                      *)
(*   pos  : index of the next byte get() returns                           *)
(*   fail : failbit (get() at end of input sets eofbit and failbit; every  *)
(*          later get() returns EOF and unget() does nothing)              *)
(*   ung  : unget()s that moved the position since the last byte was read  *)
(*   dbl  : some unget() moved the position with ung already 1             *)
(*   ub   : the run reading the stream executed undefined behaviour        *)
(*          (signed overflow of an int accumulator); what it then stores   *)
(*          is one of the outcomes a build can produce                     *)
(***************************************************************************)
Stream(txt) ==
    [txt |-> txt, pos |-> 1, fail |-> FALSE, ung |-> 0, dbl |-> FALSE, ub |-> FALSE]

Get(st) ==
    IF st.fail THEN [st |-> st, ch |-> EOF]
    ELSE IF st.pos > Len(st.txt)
         THEN [st |-> [st EXCEPT !.fail = TRUE], ch |-> EOF]
         ELSE [st |-> [st EXCEPT !.pos = st.pos + 1, !.ung = 0],
               ch |-> st.txt[st.pos]]

Unget(st) ==
    IF st.fail \/ st.pos = 1 THEN [st EXCEPT !.fail = TRUE]
    ELSE [st EXCEPT !.pos = st.pos - 1, !.ung = st.ung + 1,
                    !.dbl = st.dbl \/ (st.ung >= 1)]

\* The bytes the stream has not delivered yet.
Rest(st) == IF st.fail THEN <<>> ELSE SubSeq(st.txt, st.pos, Len(st.txt))

(***************************************************************************)
(* syntax_error(ch, context)                                               *)
(***************************************************************************)
NoError == [thrown |-> FALSE, ch |-> EOF, context |-> ""]

syntax_error(ch, context) == [thrown |-> TRUE, ch |-> ch, context |-> context]

(***************************************************************************)
(* Character predicates of the parser                                      *)
(***************************************************************************)
is_digit(ch) == (ZERO <= ch) /\ (ch <= NINE)

to_number(ch) == ch - ZERO

to_number_hex(ch) ==
    IF is_digit(ch) THEN to_number(ch)
    ELSE IF (Ord("A") <= ch) /\ (ch <= Ord("F")) THEN ch - Ord("A") + 10
    ELSE IF (Ord("a") <= ch) /\ (ch <= Ord("f")) THEN ch - Ord("a") + 10
    ELSE 0 - 1

is_alpha(ch) ==
    ((Ord("A") <= ch) /\ (ch <= Ord("Z"))) \/ ((Ord("a") <= ch) /\ (ch <= Ord("z")))

(***************************************************************************)
(* parser::skip_spaces.  Result: [st, ch, err]; err is thrown only by an   *)
(* unterminated block comment.                                             *)
(***************************************************************************)
RECURSIVE skip_line_comment(_)
skip_line_comment(st) ==
    LET g == Get(st) IN
    IF (g.ch = EOF) \/ (g.ch = CR) \/ (g.ch = LF) THEN g
    ELSE skip_line_comment(g.st)

\* The block comment loop; ok = FALSE when end of input is met first.
RECURSIVE skip_block_comment(_)
RECURSIVE reeval_asterisk(_, _)
skip_block_comment(st) ==
    LET g == Get(st) IN reeval_asterisk(g.st, g.ch)

reeval_asterisk(st, ch) ==
    IF ch = EOF THEN [st |-> st, ok |-> FALSE]
    ELSE IF ch # STAR THEN skip_block_comment(st)
    ELSE LET g == Get(st) IN
         IF g.ch = STAR THEN reeval_asterisk(g.st, g.ch)
         ELSE IF g.ch = SLASH THEN [st |-> g.st, ok |-> TRUE]
         ELSE skip_block_comment(g.st)

RECURSIVE skip_spaces(_, _)
RECURSIVE reeval_space(_, _, _)
skip_spaces(F, st) ==
    LET g == Get(st) IN reeval_space(F, g.st, g.ch)

\* reeval_space without the comment branches: '/' is returned like any character.
reeval_space_without_comments(F, st, ch) ==
    IF ch \in {TAB, LF, CR, SPACE} THEN skip_spaces(F, st)
    ELSE [st |-> st, ch |-> ch, err |-> NoError]

reeval_space(F, st, ch) ==
    IF ch \in {TAB, LF, CR, SPACE} THEN skip_spaces(F, st)
    ELSE IF (ch = SLASH) /\ has_flag(F, {"single_line_comment", "multi_line_comment"})
    THEN LET g == Get(st) IN
         IF has_flag(F, {"single_line_comment"}) /\ (g.ch = SLASH)
         THEN LET l == skip_line_comment(g.st) IN reeval_space(F, l.st, l.ch)
         ELSE IF has_flag(F, {"multi_line_comment"}) /\ (g.ch = STAR)
         THEN LET b == skip_block_comment(g.st) IN
              IF b.ok THEN skip_spaces(F, b.st)
              ELSE [st |-> b.st, ch |-> EOF, err |-> syntax_error(EOF, "comment")]
         ELSE [st |-> g.st, ch |-> g.ch, err |-> NoError]   \* no valid comments: falls to default
    ELSE [st |-> st, ch |-> ch, err |-> NoError]

(***************************************************************************)
(* unsigned long long (64 bits) as four 16-bit limbs, least significant    *)
(* first; every operation is modulo 2^64 as in C++.                        *)
(***************************************************************************)
LimbBase == 256 * 256

U64Zero == <<0, 0, 0, 0>>

\* (x * m + a) mod 2^64, for 0 <= a < m <= 16.
U64MulAdd(x, m, a) ==
    LET t1 == x[1] * m + a
        t2 == x[2] * m + (t1 \div LimbBase)
        t3 == x[3] * m + (t2 \div LimbBase)
        t4 == x[4] * m + (t3 \div LimbBase)
    IN  <<t1 % LimbBase, t2 % LimbBase, t3 % LimbBase, t4 % LimbBase>>

\* Unary minus on unsigned long long: 2^64 - x, modulo 2^64.
U64Neg(x) ==
    LET t1 == (LimbBase - 1 - x[1]) + 1
        t2 == (LimbBase - 1 - x[2]) + (t1 \div LimbBase)
        t3 == (LimbBase - 1 - x[3]) + (t2 \div LimbBase)
        t4 == (LimbBase - 1 - x[4]) + (t3 \div LimbBase)
    IN  <<t1 % LimbBase, t2 % LimbBase, t3 % LimbBase, t4 % LimbBase>>

\* static_cast<int>(unsigned long long): the low 32 bits, two's complement.
U64ToInt(x) ==
    IF x[2] >= LimbBase \div 2 THEN (x[2] - LimbBase) * LimbBase + x[1]
    ELSE x[2] * LimbBase + x[1]

\* static_cast<unsigned long long>(int): sign extension.
U64FromInt(i) ==
    LET ext == IF i < 0 THEN LimbBase - 1 ELSE 0
    IN  <<i % LimbBase, (i \div LimbBase) % LimbBase, ext, ext>>

\* Quotient and remainder of x by 10.
U64DivMod10(x) ==
    LET c4 == x[4]
        c3 == (c4 % 10) * LimbBase + x[3]
        c2 == (c3 % 10) * LimbBase + x[2]
        c1 == (c2 % 10) * LimbBase + x[1]
    IN  [q |-> <<c1 \div 10, c2 \div 10, c3 \div 10, c4 \div 10>>, r |-> c1 % 10]

\* The decimal digits of x, most significant first (<<>> for 0).
RECURSIVE U64Digits(_)
U64Digits(x) ==
    IF x = U64Zero THEN <<>>
    ELSE LET d == U64DivMod10(x) IN Append(U64Digits(d.q), d.r)

(***************************************************************************)
(* The value tree (class value, std::variant content).                     *)
(*   null    : std::monostate                                              *)
(*   boolean : bool                                                        *)
(*   integer : int, a number in INT_MIN..INT_MAX                           *)
(*   float   : double.  A finite double is held as the decimal number      *)
(*             (-1)^neg * dig * 10^exp, dig a digit sequence without       *)
(*             leading or trailing zeros (<<>> is zero, which keeps its    *)
(*             sign); cls tells finite, infinite and NaN apart.  The       *)
(*             rounding of a double to 53 bits is not modelled.            *)
(*   string  : std::string, a sequence of bytes                            *)
(*   array   : std::vector<value>                                          *)
(*   object  : std::map<std::string, value>, a sequence of [key, val]      *)
(*             in ascending key order, keys unique                         *)
(* The alternatives long and float of the variant are never produced by    *)
(* the parser and are left out.                                            *)
(***************************************************************************)
INT_MAX == 2147483647

INT_MIN == (0 - INT_MAX) - 1

Null == [kind |-> "null"]

Boolean(b) == [kind |-> "boolean", b |-> b]

Integer(i) == [kind |-> "integer", i |-> i]

String(s) == [kind |-> "string", s |-> s]

Array(a) == [kind |-> "array", a |-> a]

Object(o) == [kind |-> "object", o |-> o]

RECURSIVE StripLeadingZeros(_)
StripLeadingZeros(d) ==
    IF d # <<>> /\ Head(d) = 0 THEN StripLeadingZeros(Tail(d)) ELSE d

RECURSIVE TrailingZeros(_)
TrailingZeros(d) ==
    IF d # <<>> /\ d[Len(d)] = 0 THEN 1 + TrailingZeros(SubSeq(d, 1, Len(d) - 1)) ELSE 0

\* The double of value (-1)^neg * digits * 10^exp.
Float(neg, digits, exp) ==
    LET d == StripLeadingZeros(digits)
        z == TrailingZeros(d)
    IN  [kind |-> "float", cls |-> "finite", neg |-> neg,
         dig |-> SubSeq(d, 1, Len(d) - z),
         exp |-> IF Len(d) = z THEN 0 ELSE exp + z]

\* std::numeric_limits<double>::infinity(), with a sign.
Infinity(neg) == [kind |-> "float", cls |-> "inf", neg |-> neg, dig |-> <<>>, exp |-> 0]

\* std::numeric_limits<double>::quiet_NaN()
NaN == [kind |-> "float", cls |-> "nan", neg |-> FALSE, dig |-> <<>>, exp |-> 0]

(***************************************************************************)
(* Results of the parse functions: the stream after the call, the error    *)
(* thrown (or NoError) and the content of the value object v the function  *)
(* was given (on a throw: what the function left in it).                   *)
(***************************************************************************)
Ok(st, val) == [st |-> st, err |-> NoError, v |-> val]

Throw(st, ch, context, val) == [st |-> st, err |-> syntax_error(ch, context), v |-> val]

\* parser::equals(ch, expected...): reads and compares; ch is the last character read.
RECURSIVE equals(_, _)
equals(st, expected) ==
    LET g == Get(st) IN
    IF g.ch # Head(expected) THEN [st |-> g.st, ch |-> g.ch, ok |-> FALSE]
    ELSE IF Len(expected) = 1 THEN [st |-> g.st, ch |-> g.ch, ok |-> TRUE]
    ELSE equals(g.st, Tail(expected))

parse_null(st, v0) ==
    LET e == equals(st, Text("ull")) IN
    IF e.ok THEN Ok(e.st, Null) ELSE Throw(e.st, e.ch, "null", v0)

parse_boolean(st, v0, ch) ==
    IF ch = Ord("t")
    THEN LET e == equals(st, Text("rue")) IN
         IF e.ok THEN Ok(e.st, Boolean(TRUE)) ELSE Throw(e.st, e.ch, "boolean", v0)
    ELSE LET e == equals(st, Text("alse")) IN
         IF e.ok THEN Ok(e.st, Boolean(FALSE)) ELSE Throw(e.st, e.ch, "boolean", v0)

(***************************************************************************)
(* parser::parse_number                                                    *)
(***************************************************************************)
\* for (; ch = istream.get(), is_digit(ch); ++n) { acc *= 10; acc += to_number(ch); }
RECURSIVE digits_loop(_, _, _)
digits_loop(st, acc, n) ==
    LET g == Get(st) IN
    IF is_digit(g.ch) THEN digits_loop(g.st, U64MulAdd(acc, 10, to_number(g.ch)), n + 1)
    ELSE [st |-> g.st, ch |-> g.ch, acc |-> acc, n |-> n]

\* The [hexdigit]+ loop: int_part = (int_part << 4) | digit, unget of the terminator.
RECURSIVE hex_loop(_, _, _)
hex_loop(st, acc, no_digit) ==
    LET g == Get(st)
        digit == to_number_hex(g.ch)
    IN  IF digit < 0 THEN [st |-> Unget(g.st), ch |-> g.ch, acc |-> acc, no_digit |-> no_digit]
        ELSE hex_loop(g.st, U64MulAdd(acc, 16, digit), FALSE)

\* for (; is_digit(ch); no_digit = false, ch = istream.get()) { exp_part *= 10; exp_part += ... }
\* exp_part is an int: exceeding INT_MAX is undefined behaviour (st.ub).
RECURSIVE exp_loop(_, _, _, _)
exp_loop(st, ch, exp_part, no_digit) ==
    IF ~is_digit(ch) THEN [st |-> st, ch |-> ch, exp_part |-> exp_part, no_digit |-> no_digit]
    ELSE LET g == Get(st) IN
         IF exp_part > (INT_MAX - to_number(ch)) \div 10
         THEN exp_loop([g.st EXCEPT !.ub = TRUE], g.ch, exp_part, FALSE)
         ELSE exp_loop(g.st, g.ch, exp_part * 10 + to_number(ch), FALSE)

\* d left-padded with zeros to n digits.
RECURSIVE PadLeft(_, _)
PadLeft(d, n) == IF Len(d) >= n THEN d ELSE PadLeft(<<0>> \o d, n)

\* 2^63, the bit pattern of LLONG_MIN.
U64SignBit == <<0, 0, 0, LimbBase \div 2>>

\* v = negative ? (double)(-(long long)int_part) : (double)int_part
\* -(long long)int_part overflows for int_part = 2^63 (hex_overflows): the
\* value here is the wrapping outcome LLONG_MIN.
hex_value(negative, int_part) ==
    IF ~negative THEN Float(FALSE, U64Digits(int_part), 0)
    ELSE IF int_part = U64SignBit THEN Float(TRUE, U64Digits(int_part), 0)
    ELSE IF int_part[4] >= LimbBase \div 2
         THEN Float(FALSE, U64Digits(U64Neg(int_part)), 0)
         ELSE Float(int_part # U64Zero, U64Digits(int_part), 0)

\* The negation in hex_value is a signed overflow: undefined behaviour.
hex_overflows(negative, int_part) == negative /\ (int_part = U64SignBit)

\* The part of parse_number up to the end of the [digit|digits] loop:
\* tag "throw" (ch), "return" (val) or "go" (ch, int_part).
number_int(F, st, ch, negative) ==
    IF ch = ZERO
    THEN LET g == Get(st) IN
         IF has_flag(F, {"hexadecimal"}) /\ (g.ch \in {Ord("x"), Ord("X")})
         THEN LET h == hex_loop(g.st, U64Zero, TRUE) IN
              IF h.no_digit THEN [tag |-> "throw", st |-> h.st, ch |-> h.ch]
              ELSE [tag |-> "return",
                    st |-> [h.st EXCEPT !.ub = h.st.ub \/ hex_overflows(negative, h.acc)],
                    val |-> hex_value(negative, h.acc)]
         ELSE [tag |-> "go", st |-> g.st, ch |-> g.ch, int_part |-> U64Zero]
    ELSE IF is_digit(ch)
    THEN LET d == digits_loop(st, U64MulAdd(U64Zero, 10, to_number(ch)), 0) IN
         [tag |-> "go", st |-> d.st, ch |-> d.ch, int_part |-> d.acc]
    ELSE IF has_flag(F, {"leading_decimal_point"}) /\ (ch = DOT)
    THEN [tag |-> "go", st |-> st, ch |-> ch, int_part |-> U64Zero]
    ELSE IF has_flag(F, {"infinity_number"}) /\ (ch = Ord("i"))
    THEN LET e == equals(st, Text("nfinity")) IN
         IF e.ok THEN [tag |-> "return", st |-> e.st, val |-> Infinity(negative)]
         ELSE [tag |-> "throw", st |-> e.st, ch |-> e.ch]
    ELSE IF has_flag(F, {"not_a_number"}) /\ (ch = Ord("N"))
    THEN LET e == equals(st, Text("aN")) IN
         IF e.ok THEN [tag |-> "return", st |-> e.st, val |-> NaN]
         ELSE [tag |-> "throw", st |-> e.st, ch |-> e.ch]
    ELSE [tag |-> "throw", st |-> st, ch |-> ch]

\* The integer/float decision and the floating emission at the end of parse_number.
number_value(negative, int_part, frac_part, frac_divs, exp_part, exp_negative) ==
    LET m == IF negative THEN U64Neg(int_part) ELSE int_part
        integer_value == U64ToInt(m)
        digits == IF frac_part # U64Zero
                  THEN U64Digits(int_part) \o PadLeft(U64Digits(frac_part), frac_divs)
                  ELSE U64Digits(int_part)
        e1 == IF frac_part # U64Zero THEN 0 - frac_divs ELSE 0
        e2 == IF exp_part > 0 THEN (IF exp_negative THEN e1 - exp_part ELSE e1 + exp_part)
              ELSE e1
    IN  IF (frac_part = U64Zero) /\ (exp_part = 0) /\ (U64FromInt(integer_value) = m)
        THEN Integer(integer_value)
        ELSE Float(negative, digits, e2)

\* number_end without its istream.unget(): the terminator stays consumed.
number_end_without_unget(st, negative, int_part, f, exp_part, exp_negative) ==
    Ok(st, number_value(negative, int_part, f.acc, f.n, exp_part, exp_negative))

\* The end of parse_number: istream.unget() and the value stored.
number_end(st, negative, int_part, f, exp_part, exp_negative) ==
    Ok(Unget(st), number_value(negative, int_part, f.acc, f.n, exp_part, exp_negative))

\* [exp] after the digit loop x has run.
number_exp_digits(v0, negative, int_part, f, exp_negative, x) ==
    IF x.no_digit THEN Throw(x.st, x.ch, "number", v0)
    ELSE number_end(x.st, negative, int_part, f, x.exp_part, exp_negative)

\* [exp] after the character g behind 'e' or 'E' has been read: the optional sign.
number_exp(v0, negative, int_part, f, g) ==
    number_exp_digits(v0, negative, int_part, f, g.ch = MINUS,
        IF g.ch \in {MINUS, PLUS} THEN exp_loop(Get(g.st).st, Get(g.st).ch, 0, TRUE)
        ELSE exp_loop(g.st, g.ch, 0, TRUE))

\* parse_number from the test of frac_divs on; f is the result of the [frac] loop
\* (or the state before it when there was no '.').
number_frac(F, v0, negative, int_part, had_dot, f) ==
    IF had_dot /\ ~has_flag(F, {"trailing_decimal_point"}) /\ (f.n = 0)
    THEN Throw(f.st, f.ch, "number", v0)
    ELSE IF f.ch \in {Ord("e"), Ord("E")}
    THEN number_exp(v0, negative, int_part, f, Get(f.st))
    ELSE number_end(f.st, negative, int_part, f, 0, FALSE)

\* parse_number after the [digit|digits] loop returned i.
number_after_int(F, v0, negative, i) ==
    IF i.tag = "throw" THEN Throw(i.st, i.ch, "number", v0)
    ELSE IF i.tag = "return" THEN Ok(i.st, i.val)
    ELSE number_frac(F, v0, negative, i.int_part, i.ch = DOT,
            IF i.ch = DOT THEN digits_loop(i.st, U64Zero, 0)
            ELSE [st |-> i.st, ch |-> i.ch, acc |-> U64Zero, n |-> 0])

parse_number(F, st, v0, ch) ==
    IF (ch = MINUS) \/ (has_flag(F, {"explicit_plus_sign"}) /\ (ch = PLUS))
    THEN number_after_int(F, v0, ch = MINUS,
                          number_int(F, Get(st).st, Get(st).ch, ch = MINUS))
    ELSE number_after_int(F, v0, FALSE, number_int(F, st, ch, FALSE))

(***************************************************************************)
(* parser::parse_string on a std::string buffer, with a context label.     *)
(* Result: [st, err, s], s the buffer (on a throw: what was appended).     *)
(***************************************************************************)
\* An encoder without the three-byte form: every code unit from 0x80 on in two bytes.
utf8_encode_two_bytes(code) ==
    IF code < 128 THEN <<code>>
    ELSE <<192 + ((code \div 64) % 32), 128 + (code % 64)>>

\* The UTF-8 bytes appended for the 16-bit code unit of a \uXXXX escape.
utf8_encode(code) ==
    IF code < 128 THEN <<code>>
    ELSE IF code < 2048 THEN <<192 + (code \div 64), 128 + (code % 64)>>
    ELSE <<224 + (code \div 4096), 128 + ((code \div 64) % 64), 128 + (code % 64)>>

\* for (int i = 0; i < 4; ++i) { ch = get(); n = to_number_hex(ch); if (n < 0) throw; ... }
RECURSIVE unicode_loop(_, _, _)
unicode_loop(st, i, code) ==
    IF i = 4 THEN [st |-> st, ok |-> TRUE, code |-> code, ch |-> EOF]
    ELSE LET g == Get(st)
             n == to_number_hex(g.ch)
         IN  IF n < 0 THEN [st |-> g.st, ok |-> FALSE, code |-> code, ch |-> g.ch]
             ELSE unicode_loop(g.st, i + 1, (code * 16 + n) % LimbBase)

RECURSIVE string_loop(_, _, _, _, _)
string_loop(F, st, quote, buffer, context) ==
    LET g == Get(st)
        bad(s1, c) == [st |-> s1, err |-> syntax_error(c, context), s |-> buffer]
    IN
    IF g.ch = quote THEN [st |-> g.st, err |-> NoError, s |-> buffer]
    ELSE IF g.ch < SPACE THEN bad(g.st, g.ch)
    ELSE IF g.ch = BACKSLASH
    THEN LET e == Get(g.st) IN
         IF e.ch = SQUOTE
         THEN IF ~has_flag(F, {"single_quote"}) THEN bad(e.st, e.ch)
              ELSE string_loop(F, e.st, quote, Append(buffer, e.ch), context)
         ELSE IF e.ch \in {DQUOTE, BACKSLASH, SLASH}
         THEN string_loop(F, e.st, quote, Append(buffer, e.ch), context)
         ELSE IF e.ch = Ord("b") THEN string_loop(F, e.st, quote, Append(buffer, BS), context)
         ELSE IF e.ch = Ord("f") THEN string_loop(F, e.st, quote, Append(buffer, FF), context)
         ELSE IF e.ch = Ord("n") THEN string_loop(F, e.st, quote, Append(buffer, LF), context)
         ELSE IF e.ch = Ord("r") THEN string_loop(F, e.st, quote, Append(buffer, CR), context)
         ELSE IF e.ch = Ord("t") THEN string_loop(F, e.st, quote, Append(buffer, TAB), context)
         ELSE IF e.ch = Ord("u")
         THEN LET u == unicode_loop(e.st, 0, 0) IN
              IF ~u.ok THEN bad(u.st, u.ch)
              ELSE string_loop(F, u.st, quote, buffer \o utf8_encode(u.code), context)
         ELSE IF (e.ch = CR) /\ has_flag(F, {"multi_line_string"})
         THEN LET n == Get(e.st) IN
              string_loop(F, IF n.ch # LF THEN Unget(n.st) ELSE n.st, quote, buffer, context)
         ELSE IF (e.ch = LF) /\ has_flag(F, {"multi_line_string"})
         THEN string_loop(F, e.st, quote, buffer, context)
         ELSE bad(e.st, e.ch)
    ELSE string_loop(F, g.st, quote, Append(buffer, g.ch), context)

\* parse_string without the test of the single_quote flag on the delimiter.
parse_string_buffer_any_quote(F, st, quote, context) == string_loop(F, st, quote, <<>>, context)

parse_string_buffer(F, st, quote, context) ==
    IF ~((quote = DQUOTE) \/ (has_flag(F, {"single_quote"}) /\ (quote = SQUOTE)))
    THEN [st |-> st, err |-> syntax_error(quote, context), s |-> <<>>]
    ELSE string_loop(F, st, quote, <<>>, context)

\* parser::parse_string(value& v, int quote): v = ""; then the buffer is filled in place.
parse_string(F, st, quote) ==
    LET r == parse_string_buffer(F, st, quote, "string") IN
    [st |-> r.st, err |-> r.err, v |-> String(r.s)]

(***************************************************************************)
(* std::map<std::string, value>                                            *)
(***************************************************************************)
\* std::string operator< : lexicographic on unsigned bytes.
RECURSIVE string_less(_, _)
string_less(a, b) ==
    IF b = <<>> THEN FALSE
    ELSE IF a = <<>> THEN TRUE
    ELSE IF Head(a) # Head(b) THEN Head(a) < Head(b)
    ELSE string_less(Tail(a), Tail(b))

map_contains(o, key) == \E i \in 1..Len(o) : o[i].key = key

map_index(o, key) == CHOOSE i \in 1..Len(o) : o[i].key = key

\* elements.emplace(key, nullptr): inserts only when the key is absent.
map_emplace(o, key, val) ==
    IF map_contains(o, key) THEN o
    ELSE LET n == Cardinality({i \in 1..Len(o) : string_less(o[i].key, key)})
         IN  SubSeq(o, 1, n) \o <<[key |-> key, val |-> val]>> \o SubSeq(o, n + 1, Len(o))

\* An assignment that keeps a mapped value already parsed (the first occurrence wins).
map_assign_first(o, key, val) ==
    IF o[map_index(o, key)].val = [kind |-> "null"]
    THEN [o EXCEPT ![map_index(o, key)].val = val]
    ELSE o

\* Assignment through the reference result.first->second.
map_assign(o, key, val) == [o EXCEPT ![map_index(o, key)].val = val]

\* value::at(key, default_value)
at_key(val, key, default_value) ==
    IF (val.kind = "object") /\ map_contains(val.o, key)
    THEN val.o[map_index(val.o, key)].val
    ELSE default_value

(***************************************************************************)
(* The array modifiers of a value: append(element), erase(index), clear(). *)
(***************************************************************************)
\* append(element) putting the element in front.
append_front(val, element) == [kind |-> "array", a |-> <<element>> \o val.a]

\* value::append(element): the element goes to the end of the array.
append(val, element) == [kind |-> "array", a |-> Append(val.a, element)]

\* value::erase(index), 0 <= index < size: the element is removed and every later
\* one moves down by one.
erase(val, index) ==
    [kind |-> "array", a |-> SubSeq(val.a, 1, index) \o SubSeq(val.a, index + 2, Len(val.a))]

\* value::clear()
clear(val) == [kind |-> "array", a |-> <<>>]

(***************************************************************************)
(* Member calls on a value.  An outcome is [thrown, val, ub]: the name of  *)
(* the exception that left the call ("" when it returned), the value       *)
(* returned, and whether the call executed undefined behaviour.            *)
(***************************************************************************)
Returns(val) == [thrown |-> "", val |-> val, ub |-> FALSE]

Throws(exception) == [thrown |-> exception, val |-> [kind |-> "null"], ub |-> FALSE]

\* A call: the member called, its arguments (index, key and arg where the member
\* has them; arg holds the template arguments of get), the value before the call
\* and the outcome.
Call(op, index, key, arg, before, out) ==
    [op |-> op, index |-> index, key |-> key, arg |-> arg, before |-> before, out |-> out]

NoCall == Call("", 0, <<>>, [kind |-> "null"], [kind |-> "null"], Returns([kind |-> "null"]))

\* value::at(index, default_value), defaulting every index.
at_index_default_always(val, index, default_value) == default_value

\* value::at(index, default_value)
at_index(val, index, default_value) ==
    IF val.kind = "array"
    THEN IF (0 <= index) /\ (index < Len(val.a)) THEN val.a[index + 1] ELSE default_value
    ELSE default_value

\* value::at(index): at(index, null) with a static null value.
at_index_null(val, index) == Returns(at_index(val, index, [kind |-> "null"]))

\* value::operator[](index)
subscript_index(val, index) == at_index_null(val, index)

\* value::at(key): at(key, null) with a static null value.
at_key_null(val, key) == Returns(at_key(val, key, [kind |-> "null"]))

\* value::operator[](key)
subscript_key(val, key) == at_key_null(val, key)

(***************************************************************************)
(* parser::parse_key.  Result: [st, err, s].                               *)
(***************************************************************************)
\* for (;; ch = istream.get()) { ... buffer.append(1, (char)ch); }
RECURSIVE key_loop(_, _, _)
key_loop(st, ch, buffer) ==
    IF (ch = UNDERSCORE) \/ (ch = DOLLAR) \/ is_alpha(ch) \/ (is_digit(ch) /\ buffer # <<>>)
    THEN LET g == Get(st) IN key_loop(g.st, g.ch, Append(buffer, ch))
    ELSE IF ch = COLON THEN [st |-> Unget(st), err |-> NoError, s |-> buffer]
    ELSE [st |-> st, err |-> syntax_error(ch, "object-key"), s |-> buffer]

\* key_after_spaces without the unquoted_key branch: every key is a string.
key_after_spaces_quoted(F, sp) ==
    IF sp.err.thrown THEN [st |-> sp.st, err |-> sp.err, s |-> <<>>]
    ELSE parse_string_buffer(F, sp.st, sp.ch, "object-key")

\* parse_key after its skip_spaces returned sp.
key_after_spaces(F, sp) ==
    IF sp.err.thrown THEN [st |-> sp.st, err |-> sp.err, s |-> <<>>]
    ELSE IF has_flag(F, {"unquoted_key"}) /\ (sp.ch # DQUOTE) /\ (sp.ch # SQUOTE)
    THEN key_loop(sp.st, sp.ch, <<>>)
    ELSE parse_string_buffer(F, sp.st, sp.ch, "object-key")

parse_key(F, st) == key_after_spaces(F, skip_spaces(F, st))

(***************************************************************************)
(* parser::parse_value, parse_array, parse_object.  elements is the        *)
(* container v holds (v.as_array(), v.as_object()).                        *)
(***************************************************************************)
RECURSIVE parse_value(_, _, _, _)
RECURSIVE array_loop(_, _, _)
RECURSIVE object_loop(_, _, _)

\* elements.emplace_back(nullptr); parse_value(elements.back(), context) returned r.
array_element(F, elements, r) ==
    IF r.err.thrown THEN [st |-> r.st, err |-> r.err, v |-> Array(Append(elements, r.v))]
    ELSE array_loop(F, r.st, Append(elements, r.v))

\* array_after_comma without the test for ']': a value must follow every comma.
array_after_comma_strict(F, elements, sp) ==
    IF sp.err.thrown THEN [st |-> sp.st, err |-> sp.err, v |-> Array(elements)]
    ELSE array_element(F, elements, parse_value(F, Unget(sp.st), Null, "array"))

\* array_after_comma with a second unget() behind the first.
array_after_comma_unget_twice(F, elements, sp) ==
    IF sp.err.thrown THEN [st |-> sp.st, err |-> sp.err, v |-> Array(elements)]
    ELSE IF sp.ch = RBRACKET THEN Ok(sp.st, Array(elements))
    ELSE array_element(F, elements, parse_value(F, Unget(Unget(sp.st)), Null, "array"))

\* After a ',' with trailing_comma: the second skip_spaces returned sp.
array_after_comma(F, elements, sp) ==
    IF sp.err.thrown THEN [st |-> sp.st, err |-> sp.err, v |-> Array(elements)]
    ELSE IF sp.ch = RBRACKET THEN Ok(sp.st, Array(elements))
    ELSE array_element(F, elements, parse_value(F, Unget(sp.st), Null, "array"))

\* array_step taking the end of the input for the closing ']'.
array_step_eof_closes(F, elements, sp) ==
    IF sp.err.thrown THEN [st |-> sp.st, err |-> sp.err, v |-> Array(elements)]
    ELSE IF sp.ch \in {RBRACKET, EOF} THEN Ok(sp.st, Array(elements))
    ELSE IF elements = <<>>
    THEN array_element(F, elements, parse_value(F, Unget(sp.st), Null, "array"))
    ELSE IF sp.ch # COMMA THEN Throw(sp.st, sp.ch, "array", Array(elements))
    ELSE IF has_flag(F, {"trailing_comma"})
    THEN array_after_comma(F, elements, skip_spaces(F, sp.st))
    ELSE array_element(F, elements, parse_value(F, sp.st, Null, "array"))

\* One round of the for (;;) of parse_array after its skip_spaces returned sp.
array_step(F, elements, sp) ==
    IF sp.err.thrown THEN [st |-> sp.st, err |-> sp.err, v |-> Array(elements)]
    ELSE IF sp.ch = RBRACKET THEN Ok(sp.st, Array(elements))
    ELSE IF elements = <<>>
    THEN array_element(F, elements, parse_value(F, Unget(sp.st), Null, "array"))
    ELSE IF sp.ch # COMMA THEN Throw(sp.st, sp.ch, "array", Array(elements))
    ELSE IF has_flag(F, {"trailing_comma"})
    THEN array_after_comma(F, elements, skip_spaces(F, sp.st))
    ELSE array_element(F, elements, parse_value(F, sp.st, Null, "array"))

array_loop(F, st, elements) == array_step(F, elements, skip_spaces(F, st))

\* parser::parse_array: v = array({}); then the loop.
parse_array(F, st) == array_loop(F, st, <<>>)

\* parse_value(result.first->second, context) returned r; emplaced is the map
\* after elements.emplace(key, nullptr).
object_value(F, emplaced, key, r) ==
    IF r.err.thrown THEN [st |-> r.st, err |-> r.err, v |-> Object(map_assign(emplaced, key, r.v))]
    ELSE object_loop(F, r.st, map_assign(emplaced, key, r.v))

\* elements.emplace(key, nullptr) and the parse of the value into the mapped value.
object_emplace(F, st, emplaced, key) ==
    object_value(F, emplaced, key,
                 parse_value(F, st, emplaced[map_index(emplaced, key)].val, "object"))

\* The skip_spaces after parse_key returned sp.
object_colon(F, elements, key, sp) ==
    IF sp.err.thrown THEN [st |-> sp.st, err |-> sp.err, v |-> Object(elements)]
    ELSE IF sp.ch # COLON THEN Throw(sp.st, sp.ch, "object", Object(elements))
    ELSE object_emplace(F, sp.st, map_emplace(elements, key, Null), key)

\* parse_key returned k.
object_key(F, elements, k) ==
    IF k.err.thrown THEN [st |-> k.st, err |-> k.err, v |-> Object(elements)]
    ELSE object_colon(F, elements, k.s, skip_spaces(F, k.st))

\* After a ',' with trailing_comma: the second skip_spaces returned sp.
object_after_comma(F, elements, sp) ==
    IF sp.err.thrown THEN [st |-> sp.st, err |-> sp.err, v |-> Object(elements)]
    ELSE IF sp.ch = RBRACE THEN Ok(sp.st, Object(elements))
    ELSE object_key(F, elements, parse_key(F, Unget(sp.st)))

\* One round of the for (;;) of parse_object after its skip_spaces returned sp.
object_step(F, elements, sp) ==
    IF sp.err.thrown THEN [st |-> sp.st, err |-> sp.err, v |-> Object(elements)]
    ELSE IF sp.ch = RBRACE THEN Ok(sp.st, Object(elements))
    ELSE IF elements = <<>> THEN object_key(F, elements, parse_key(F, Unget(sp.st)))
    ELSE IF sp.ch # COMMA THEN Throw(sp.st, sp.ch, "object", Object(elements))
    ELSE IF has_flag(F, {"trailing_comma"})
    THEN object_after_comma(F, elements, skip_spaces(F, sp.st))
    ELSE object_key(F, elements, parse_key(F, sp.st))

object_loop(F, st, elements) == object_step(F, elements, skip_spaces(F, st))

\* parser::parse_object: v = object({}); then the loop.
parse_object(F, st) == object_loop(F, st, <<>>)

\* The switch of parse_value on the character sp its skip_spaces returned.
value_switch(F, v0, context, sp) ==
    IF sp.err.thrown THEN [st |-> sp.st, err |-> sp.err, v |-> v0]
    ELSE IF sp.ch = LBRACE THEN parse_object(F, sp.st)
    ELSE IF sp.ch = LBRACKET THEN parse_array(F, sp.st)
    ELSE IF sp.ch \in {DQUOTE, SQUOTE} THEN parse_string(F, sp.st, sp.ch)
    ELSE IF sp.ch = Ord("n") THEN parse_null(sp.st, v0)
    ELSE IF sp.ch \in {Ord("t"), Ord("f")} THEN parse_boolean(sp.st, v0, sp.ch)
    ELSE IF is_digit(sp.ch) \/ (sp.ch \in {MINUS, PLUS, DOT, Ord("i"), Ord("N")})
    THEN parse_number(F, sp.st, v0, sp.ch)
    ELSE Throw(sp.st, sp.ch, context, v0)

\* v0 is the content of the value object before the call.
parse_value(F, st, v0, context) == value_switch(F, v0, context, skip_spaces(F, st))

\* do_parse with the finished flag, after parse_value stored val: the skip_spaces
\* returned sp.
finished_check(val, sp) ==
    IF sp.err.thrown THEN [st |-> sp.st, err |-> sp.err, v |-> val]
    ELSE IF sp.ch # EOF THEN Throw(sp.st, sp.ch, "value", val)
    ELSE Ok(sp.st, val)

\* do_parse after parse_value returned r.
parse_finish(F, r) ==
    IF r.err.thrown \/ ~has_flag(F, {"finished"}) THEN r
    ELSE finished_check(r.v, skip_spaces(F, r.st))

\* parser::do_parse
do_parse(F, st, v0) == parse_finish(F, parse_value(F, st, v0, "value"))

(***************************************************************************)
(* Stringifier                                                             *)
(***************************************************************************)
DigitText(d) == [k \in 1..Len(d) |-> ZERO + d[k]]

Repeat(ch, n) == [k \in 1..n |-> ch]

\* An int written without its sign.
int_text_unsigned(i) ==
    IF i = 0 THEN <<ZERO>>
    ELSE DigitText(U64Digits(IF i < 0 THEN U64Neg(U64FromInt(i)) ELSE U64FromInt(i)))

\* ostream << int
int_text(i) ==
    IF i < 0 THEN <<MINUS>> \o DigitText(U64Digits(U64Neg(U64FromInt(i))))
    ELSE IF i = 0 THEN <<ZERO>>
    ELSE DigitText(U64Digits(U64FromInt(i)))

\* The precision of a default-constructed std::ostream (std::ios_base::precision()).
ostream_precision == 6

\* d, a digit sequence read as a number, plus one; the length grows on a carry out.
RECURSIVE Increment(_)
Increment(d) ==
    IF d = <<>> THEN <<1>>
    ELSE IF d[Len(d)] < 9 THEN [d EXCEPT ![Len(d)] = d[Len(d)] + 1]
    ELSE Append(Increment(SubSeq(d, 1, Len(d) - 1)), 0)

\* ostream << double for a finite non-zero double, in the default floatfield:
\* the %g conversion with ostream_precision significant digits.
\* Result [dig, x]: the significant digits kept (trailing zeros removed) and the
\* decimal exponent of the first of them.
round_significant(f) ==
    LET n == Len(f.dig)
        P == ostream_precision
        kept == SubSeq(f.dig, 1, P)
        rest == SubSeq(f.dig, P + 1, n)
        up == (rest[1] > 5) \/ ((rest[1] = 5) /\ ((Len(rest) > 1) \/ (kept[P] % 2 = 1)))
        inc == Increment(kept)
        r == IF n <= P THEN f.dig ELSE IF up THEN inc ELSE kept
        x == (f.exp + n - 1) + (IF (n > P) /\ up /\ (Len(inc) > P) THEN 1 ELSE 0)
        r6 == SubSeq(r, 1, IF Len(r) > P THEN P ELSE Len(r))
    IN  [dig |-> SubSeq(r6, 1, Len(r6) - TrailingZeros(r6)), x |-> x]

double_text(f) ==
    LET sign == IF f.neg THEN <<MINUS>> ELSE <<>>
        g == round_significant(f)
        n == Len(g.dig)
        abs_x == IF g.x < 0 THEN 0 - g.x ELSE g.x
        exp_digits == IF abs_x < 10 THEN <<0, abs_x>>
                      ELSE IF abs_x < 100 THEN <<abs_x \div 10, abs_x % 10>>
                      ELSE <<abs_x \div 100, (abs_x \div 10) % 10, abs_x % 10>>
    IN
    IF f.dig = <<>> THEN sign \o <<ZERO>>
    ELSE IF (g.x < 0 - 4) \/ (g.x >= ostream_precision)
    THEN \* d[.ddd]e(+|-)XX
         sign \o <<ZERO + g.dig[1]>>
              \o (IF n > 1 THEN <<DOT>> \o DigitText(SubSeq(g.dig, 2, n)) ELSE <<>>)
              \o <<Ord("e"), IF g.x < 0 THEN MINUS ELSE PLUS>> \o DigitText(exp_digits)
    ELSE IF g.x < 0
    THEN sign \o <<ZERO, DOT>> \o Repeat(ZERO, (0 - g.x) - 1) \o DigitText(g.dig)
    ELSE IF n <= g.x + 1
    THEN sign \o DigitText(g.dig) \o Repeat(ZERO, g.x + 1 - n)
    ELSE sign \o DigitText(SubSeq(g.dig, 1, g.x + 1)) \o <<DOT>>
              \o DigitText(SubSeq(g.dig, g.x + 2, n))

HexChar(n) == IF n < 10 THEN ZERO + n ELSE Ord("a") + (n - 10)

\* A byte written as it is, without an escape.
escape_byte_plain(ch) == <<ch>>

\* stringifier::stringify_string, one byte.
escape_byte(ch) ==
    IF ch = DQUOTE THEN <<BACKSLASH, DQUOTE>>
    ELSE IF ch = BACKSLASH THEN <<BACKSLASH, BACKSLASH>>
    ELSE IF ch = BS THEN <<BACKSLASH, Ord("b")>>
    ELSE IF ch = FF THEN <<BACKSLASH, Ord("f")>>
    ELSE IF ch = LF THEN <<BACKSLASH, Ord("n")>>
    ELSE IF ch = CR THEN <<BACKSLASH, Ord("r")>>
    ELSE IF ch = TAB THEN <<BACKSLASH, Ord("t")>>
    ELSE IF ch < SPACE
    THEN <<BACKSLASH, Ord("u"), ZERO, ZERO, HexChar((ch \div 16) % 16), HexChar(ch % 16)>>
    ELSE <<ch>>

RECURSIVE escape_bytes(_)
escape_bytes(s) == IF s = <<>> THEN <<>> ELSE escape_byte(Head(s)) \o escape_bytes(Tail(s))

stringify_string(s) == <<DQUOTE>> \o escape_bytes(s) \o <<DQUOTE>>

\* stringifier<F,I>::get_newline
get_newline(F) == IF has_flag(F, {"crlf_newline"}) THEN <<CR, LF>> ELSE <<LF>>

\* An indent of one space per level whatever the indent specification says.
get_indent_one_space(I) == IF I = 0 THEN <<>> ELSE <<SPACE>>

\* stringifier<F,I>::get_indent
get_indent(I) ==
    IF I > 0 THEN Repeat(SPACE, I) ELSE IF I < 0 THEN Repeat(TAB, 0 - I) ELSE <<>>

\* A numeric branch that writes the NaN and infinity literals whatever the flags say.
number_text_literals(F, val) ==
    IF val.cls = "nan" THEN Text("NaN")
    ELSE IF val.cls = "inf" THEN (IF ~val.neg THEN Text("infinity") ELSE Text("-infinity"))
    ELSE double_text(val)

\* The numeric branch of stringify_value for a double: NaN, infinite, finite.
number_text(F, val) ==
    IF val.cls = "nan"
    THEN (IF ~has_flag(F, {"not_a_number"}) THEN Text("null") ELSE Text("NaN"))
    ELSE IF val.cls = "inf"
    THEN (IF ~has_flag(F, {"infinity_number"}) THEN Text("null")
          ELSE IF ~val.neg THEN Text("infinity") ELSE Text("-infinity"))
    ELSE double_text(val)

\* stringifier<F,I>::stringify_value(v, indent): the bytes written.
RECURSIVE stringify_value(_, _, _, _)
RECURSIVE stringify_items(_, _, _, _, _, _)
stringify_value(F, I, val, ind) ==
    IF val.kind = "null" THEN Text("null")
    ELSE IF val.kind = "boolean" THEN (IF val.b THEN Text("true") ELSE Text("false"))
    ELSE IF val.kind = "integer" THEN int_text(val.i)
    ELSE IF val.kind = "float" THEN number_text(F, val)
    ELSE IF val.kind = "string" THEN stringify_string(val.s)
    ELSE IF val.kind = "object"
    THEN IF val.o = <<>> THEN Text("{}")
         ELSE IF I = 0 THEN stringify_items(F, I, val.o, ind, TRUE, 1) \o <<RBRACE>>
         ELSE stringify_items(F, I, val.o, ind \o get_indent(I), TRUE, 1)
                  \o get_newline(F) \o ind \o <<RBRACE>>
    ELSE IF val.a = <<>> THEN Text("[]")
         ELSE IF I = 0 THEN stringify_items(F, I, val.a, ind, FALSE, 1) \o <<RBRACKET>>
         ELSE stringify_items(F, I, val.a, ind \o get_indent(I), FALSE, 1)
                  \o get_newline(F) \o ind \o <<RBRACKET>>

\* The for loops over the pairs of an object and the items of an array, from the
\* k-th on; inner is the indent the elements are written with.
stringify_items(F, I, items, inner, is_object, k) ==
    IF k > Len(items) THEN <<>>
    ELSE LET delim == IF k > 1 THEN <<COMMA>>
                      ELSE IF is_object THEN <<LBRACE>> ELSE <<LBRACKET>>
             lead == IF I = 0 THEN delim ELSE delim \o get_newline(F) \o inner
             item == IF is_object
                     THEN stringify_string(items[k].key)
                              \o (IF I = 0 THEN <<COLON>> ELSE <<COLON, SPACE>>)
                              \o stringify_value(F, I, items[k].val, inner)
                     ELSE stringify_value(F, I, items[k], inner)
         IN  lead \o item \o stringify_items(F, I, items, inner, is_object, k + 1)

\* stringifier<F,I>::do_stringify
do_stringify(F, I, val) == stringify_value(F, I, val, <<>>)

\* value::operator== on two values: std::variant equality (same alternative, equal
\* payloads); doubles compare as IEEE 754 (NaN differs from itself, -0.0 == +0.0).
RECURSIVE value_equal(_, _)
value_equal(a, b) ==
    IF a.kind # b.kind THEN FALSE
    ELSE IF a.kind = "float"
    THEN IF (a.cls = "nan") \/ (b.cls = "nan") THEN FALSE
         ELSE IF (a.cls = "finite") /\ (b.cls = "finite") /\ (a.dig = <<>>) /\ (b.dig = <<>>)
         THEN TRUE
         ELSE a = b
    ELSE IF a.kind = "array"
    THEN (Len(a.a) = Len(b.a)) /\ (\A k \in 1..Len(a.a) : value_equal(a.a[k], b.a[k]))
    ELSE IF a.kind = "object"
    THEN (Len(a.o) = Len(b.o))
         /\ (\A k \in 1..Len(a.o) :
                (a.o[k].key = b.o[k].key) /\ value_equal(a.o[k].val, b.o[k].val))
    ELSE a = b

(***************************************************************************)
(* Conversions of the standard library that value::get<T> calls.  Where    *)
(* more than one outcome is possible the result is the set of them.        *)
(***************************************************************************)
\* Digit sequences without leading zeros compared as numbers: a <= b.
RECURSIVE digits_less_eq(_, _)
digits_less_eq(a, b) ==
    IF Len(a) # Len(b) THEN Len(a) < Len(b)
    ELSE IF a = <<>> THEN TRUE
    ELSE IF Head(a) # Head(b) THEN Head(a) < Head(b)
    ELSE digits_less_eq(Tail(a), Tail(b))

\* std::numeric_limits<int>: the number (-1)^negative * d is an int.
int_holds(negative, d) ==
    IF negative THEN digits_less_eq(d, Increment(U64Digits(U64FromInt(INT_MAX))))
    ELSE digits_less_eq(d, U64Digits(U64FromInt(INT_MAX)))

\* The int (-1)^negative * d, accumulated below zero so that INT_MIN is reached.
RECURSIVE minus_digits(_, _)
minus_digits(d, acc) == IF d = <<>> THEN acc ELSE minus_digits(Tail(d), acc * 10 - Head(d))

int_of(negative, d) == IF negative THEN minus_digits(d, 0) ELSE 0 - minus_digits(d, 0)

\* The digits of a finite double before the decimal point (<<>> for zero).
integer_digits(f) ==
    IF f.exp >= 0 THEN (IF f.dig = <<>> THEN <<>> ELSE f.dig \o Repeat(0, f.exp))
    ELSE SubSeq(f.dig, 1, Len(f.dig) + f.exp)

\* The digits of a finite double after the decimal point.
fraction_digits(f) ==
    IF f.exp >= 0 THEN <<>>
    ELSE IF Len(f.dig) + f.exp >= 0 THEN SubSeq(f.dig, Len(f.dig) + f.exp + 1, Len(f.dig))
    ELSE Repeat(0, 0 - (Len(f.dig) + f.exp)) \o f.dig

\* The values an int may hold after a conversion whose behaviour is undefined.
undefined_ints == {INT_MIN, 0, INT_MAX}

\* static_cast<int>(double): the fraction is dropped; the behaviour is undefined
\* when the result is no int (and for NaN and the infinities).
int_from_digits(negative, d) ==
    IF int_holds(negative, d)
    THEN {Returns(Integer(int_of(negative, d)))}
    ELSE {[thrown |-> "", val |-> Integer(i), ub |-> TRUE] : i \in undefined_ints}

static_cast_int(f) ==
    IF f.cls # "finite"
    THEN {[thrown |-> "", val |-> Integer(i), ub |-> TRUE] : i \in undefined_ints}
    ELSE int_from_digits(f.neg, integer_digits(f))

\* static_cast<double>(int)
static_cast_double(i) ==
    IF i < 0 THEN Float(TRUE, U64Digits(U64Neg(U64FromInt(i))), 0)
    ELSE Float(FALSE, U64Digits(U64FromInt(i)), 0)

\* The number of digits std::to_string(double) writes after the decimal point ("%f").
to_string_precision == 6

\* The text of "%f" for the digits all, the last to_string_precision of them
\* after the decimal point.
fixed_text(negative, all) ==
    (IF negative THEN <<MINUS>> ELSE <<>>)
    \o (IF Len(all) = to_string_precision THEN <<ZERO>>
        ELSE DigitText(SubSeq(all, 1, Len(all) - to_string_precision)))
    \o <<DOT>>
    \o DigitText(SubSeq(all, Len(all) - to_string_precision + 1, Len(all)))

\* The digits kept are rounded by the digits dropped; dropped ends in a digit that
\* is not 0.  Where the decimal number lies halfway, the double it stands for lies
\* on either side and both roundings are outcomes.
fixed_rounded(negative, kept, dropped) ==
    IF dropped = <<>> THEN {fixed_text(negative, kept)}
    ELSE IF dropped[1] < 5 THEN {fixed_text(negative, kept)}
    ELSE IF (dropped[1] > 5) \/ (Len(dropped) > 1) THEN {fixed_text(negative, Increment(kept))}
    ELSE {fixed_text(negative, kept), fixed_text(negative, Increment(kept))}

fixed_digits(negative, int, frac) ==
    IF Len(frac) <= to_string_precision
    THEN {fixed_text(negative, int \o frac \o Repeat(0, to_string_precision - Len(frac)))}
    ELSE fixed_rounded(negative, int \o SubSeq(frac, 1, to_string_precision),
                       SubSeq(frac, to_string_precision + 1, Len(frac)))

\* std::to_string(double): "%f" of the decimal number the double is held as.  (A
\* double printed with more than 15 significant digits shows the digits of its
\* binary value, which the value tree does not hold.)
to_string_double(f) ==
    IF f.cls = "nan" THEN {Text("nan")}
    ELSE IF f.cls = "inf" THEN {IF f.neg THEN Text("-inf") ELSE Text("inf")}
    ELSE fixed_digits(f.neg, integer_digits(f), fraction_digits(f))

\* std::to_string(int)
to_string_int(i) == int_text(i)

\* std::isspace in the "C" locale
isspace(ch) == ch \in {SPACE, TAB, LF, LF + 1, FF, CR}

RECURSIVE skip_isspace(_)
skip_isspace(s) == IF (s # <<>>) /\ isspace(Head(s)) THEN skip_isspace(Tail(s)) ELSE s

\* An optional sign in front of s.
has_sign(s) == (s # <<>>) /\ (Head(s) \in {PLUS, MINUS})

is_negative(s) == (s # <<>>) /\ (Head(s) = MINUS)

unsigned_part(s) == IF has_sign(s) THEN Tail(s) ELSE s

\* The decimal digits s starts with, as numbers.
RECURSIVE digit_run(_)
digit_run(s) ==
    IF (s # <<>>) /\ is_digit(Head(s)) THEN <<to_number(Head(s))>> \o digit_run(Tail(s)) ELSE <<>>

drop(s, n) == SubSeq(s, n + 1, Len(s))

\* std::stoi(s): strtol in base 10; no digits is std::invalid_argument, a number
\* that is no int is std::out_of_range; what follows the digits is ignored.
stoi_digits(negative, d) ==
    IF d = <<>> THEN Throws("invalid_argument")
    ELSE IF int_holds(negative, StripLeadingZeros(d))
    THEN Returns(Integer(int_of(negative, StripLeadingZeros(d))))
    ELSE Throws("out_of_range")

stoi(s) ==
    stoi_digits(is_negative(skip_isspace(s)), digit_run(unsigned_part(skip_isspace(s))))

\* std::tolower of an ASCII letter
tolower(ch) == IF (Ord("A") <= ch) /\ (ch <= Ord("Z")) THEN ch + (Ord("a") - Ord("A")) ELSE ch

\* s starts with the word w, in either case.
starts_with(s, w) ==
    (Len(s) >= Len(w)) /\ (\A i \in 1..Len(w) : tolower(s[i]) = w[i])

\* The fraction of a mantissa: the digits after a decimal point, if there is one.
fraction_run(s) == IF (s # <<>>) /\ (Head(s) = DOT) THEN digit_run(Tail(s)) ELSE <<>>

\* What follows the mantissa whose integer digits are int.
after_mantissa(s, int) ==
    IF (Len(s) > Len(int)) /\ (s[Len(int) + 1] = DOT)
    THEN drop(s, Len(int) + 1 + Len(digit_run(drop(s, Len(int) + 1))))
    ELSE drop(s, Len(int))

\* The exponent part e[+-]digits, taken only with a digit in it.
has_exponent(s) ==
    (s # <<>>) /\ (tolower(Head(s)) = Ord("e")) /\ (digit_run(unsigned_part(Tail(s))) # <<>>)

\* The number the digits d write, kept from growing once it is beyond limit.
RECURSIVE capped_number(_, _, _)
capped_number(d, acc, limit) ==
    IF (d = <<>>) \/ (acc > limit) THEN acc
    ELSE capped_number(Tail(d), acc * 10 + Head(d), limit)

\* The decimal exponents of the largest and of the smallest normal double.
DBL_MAX_10_EXP == 308

DBL_MIN_10_EXP == 0 - 307

exponent_value(s) ==
    IF ~has_exponent(s) THEN 0
    ELSE IF is_negative(Tail(s))
    THEN 0 - capped_number(digit_run(unsigned_part(Tail(s))), 0, 4 * DBL_MAX_10_EXP)
    ELSE capped_number(digit_run(unsigned_part(Tail(s))), 0, 4 * DBL_MAX_10_EXP)

\* Digit sequences compared as the fractions 0.a and 0.b: a <= b.
RECURSIVE fraction_less_eq(_, _)
fraction_less_eq(a, b) ==
    IF a = <<>> THEN TRUE
    ELSE IF b = <<>> THEN \A i \in 1..Len(a) : a[i] = 0
    ELSE IF Head(a) # Head(b) THEN Head(a) < Head(b)
    ELSE fraction_less_eq(Tail(a), Tail(b))

\* The digits of DBL_MAX (1.7976931348623157e308) and DBL_MIN (2.2250738585072014e-308).
DBL_MAX_digits == <<1, 7, 9, 7, 6, 9, 3, 1, 3, 4, 8, 6, 2, 3, 1, 5, 7>>

DBL_MIN_digits == <<2, 2, 2, 5, 0, 7, 3, 8, 5, 8, 5, 0, 7, 2, 0, 1, 4>>

\* strtod reports ERANGE (std::out_of_range) for a number beyond DBL_MAX and for
\* one below DBL_MIN that is not zero; m has no leading zero and x is the decimal
\* exponent of its first digit.
double_range_error(m, x) ==
    \/ x > DBL_MAX_10_EXP
    \/ (x = DBL_MAX_10_EXP) /\ ~fraction_less_eq(m, DBL_MAX_digits)
    \/ x < DBL_MIN_10_EXP - 1
    \/ (x = DBL_MIN_10_EXP - 1) /\ ~fraction_less_eq(DBL_MIN_digits, m)

stod_number(negative, m, e10) ==
    IF m = <<>> THEN Returns(Float(negative, <<>>, 0))
    ELSE IF double_range_error(m, (Len(m) - 1) + e10) THEN Throws("out_of_range")
    ELSE Returns(Float(negative, m, e10))

stod_mantissa(negative, s, int, frac) ==
    IF (int = <<>>) /\ (frac = <<>>) THEN Throws("invalid_argument")
    ELSE stod_number(negative, StripLeadingZeros(int \o frac),
                    exponent_value(after_mantissa(s, int)) - Len(frac))

\* std::stod(s): strtod on a decimal number, "inf", "infinity" or "nan" (the
\* strings the model stores hold no hexadecimal floating literal).
stod_unsigned(negative, s) ==
    IF starts_with(s, Text("inf")) THEN Returns(Infinity(negative))
    ELSE IF starts_with(s, Text("nan")) THEN Returns(NaN)
    ELSE stod_mantissa(negative, s, digit_run(s), fraction_run(drop(s, Len(digit_run(s)))))

stod(s) == stod_unsigned(is_negative(skip_isspace(s)), unsigned_part(skip_isspace(s)))


(***************************************************************************)
(* value::get<T, auto_conversion>() for T one of int, double, bool and     *)
(* std::string.  The result is the set of the outcomes of the call; what   *)
(* it returns is held as a value of the kind of T.                         *)
(***************************************************************************)
bad_cast == Throws("bad_cast")

\* null => T, converting null to the number 0 as well.
get_null_as_zero(T, auto_conversion) ==
    IF ~auto_conversion THEN bad_cast
    ELSE IF T = "string" THEN Returns(String(Text("null")))
    ELSE IF T = "bool" THEN Returns(Boolean(FALSE))
    ELSE IF T = "int" THEN Returns(Integer(0))
    ELSE Returns(Float(FALSE, <<>>, 0))

\* null => T
get_null(T, auto_conversion) ==
    IF ~auto_conversion THEN bad_cast
    ELSE IF T = "string" THEN Returns(String(Text("null")))
    ELSE IF T = "bool" THEN Returns(Boolean(FALSE))
    ELSE bad_cast

\* v != 0 for a stored bool, int or double
not_zero(val) ==
    IF val.kind = "boolean" THEN val.b
    ELSE IF val.kind = "integer" THEN val.i # 0
    ELSE (val.cls # "finite") \/ (val.dig # <<>>)

\* to boolean
get_bool(val, auto_conversion) ==
    IF val.kind = "string"
    THEN IF auto_conversion THEN Returns(Boolean(val.s = Text("true"))) ELSE bad_cast
    ELSE Returns(Boolean(not_zero(val)))

\* number => number: static_cast<R>(v)
static_cast_number(val, T) ==
    IF val.kind = "boolean"
    THEN {Returns(IF T = "int" THEN Integer(IF val.b THEN 1 ELSE 0)
                  ELSE static_cast_double(IF val.b THEN 1 ELSE 0))}
    ELSE IF val.kind = "integer"
    THEN {Returns(IF T = "int" THEN val ELSE static_cast_double(val.i))}
    ELSE IF T = "int" THEN static_cast_int(val)
    ELSE {Returns(val)}

\* to number
get_number(val, T, auto_conversion) ==
    IF val.kind = "string"
    THEN IF ~auto_conversion THEN {bad_cast}
         ELSE IF T = "double" THEN {stod(val.s)}
         ELSE {stoi(val.s)}
    ELSE static_cast_number(val, T)

\* to string
get_string(val, auto_conversion) ==
    IF val.kind = "boolean"
    THEN IF auto_conversion
         THEN {Returns(String(IF val.b THEN Text("true") ELSE Text("false")))}
         ELSE {bad_cast}
    ELSE IF val.kind = "string" THEN {Returns(val)}
    ELSE IF ~auto_conversion THEN {bad_cast}
    ELSE IF val.kind = "integer" THEN {Returns(String(to_string_int(val.i)))}
    ELSE {Returns(String(t)) : t \in to_string_double(val)}

get(val, T, auto_conversion) ==
    IF val.kind \in {"array", "object"} THEN {bad_cast}
    ELSE IF val.kind = "null" THEN {get_null(T, auto_conversion)}
    ELSE IF T = "bool" THEN {get_bool(val, auto_conversion)}
    ELSE IF T \in {"int", "double"} THEN get_number(val, T, auto_conversion)
    ELSE IF T = "string" THEN get_string(val, auto_conversion)
    ELSE {bad_cast}

(***************************************************************************)
(* value::as_null .. as_object and value::get_strict<T>.  The result is    *)
(* the set of the outcomes of the call.                                    *)
(***************************************************************************)
as_null(val) == {IF val.kind = "null" THEN Returns(val) ELSE bad_cast}

as_boolean(val) == {IF val.kind = "boolean" THEN Returns(val) ELSE bad_cast}

\* as_number: static_cast<number_type>(v) of a stored int or double.
as_number(val) ==
    IF val.kind = "integer" THEN {Returns(static_cast_double(val.i))}
    ELSE IF val.kind = "float" THEN {Returns(val)}
    ELSE {bad_cast}

\* as_integer throwing for a stored double.
as_integer_strict(val) == {IF val.kind = "integer" THEN Returns(val) ELSE bad_cast}

\* as_integer: static_cast<integer_type>(v) of a stored int or double.
as_integer(val) ==
    IF val.kind = "integer" THEN {Returns(val)}
    ELSE IF val.kind = "float" THEN static_cast_int(val)
    ELSE {bad_cast}

as_string(val) == {IF val.kind = "string" THEN Returns(val) ELSE bad_cast}

as_array(val) == {IF val.kind = "array" THEN Returns(val) ELSE bad_cast}

as_object(val) == {IF val.kind = "object" THEN Returns(val) ELSE bad_cast}

\* The alternative of std::variant content that val holds.
alternative(val) ==
    CASE val.kind = "null" -> "monostate"
      [] val.kind = "boolean" -> "bool"
      [] val.kind = "integer" -> "int"
      [] val.kind = "float" -> "double"
      [] OTHER -> val.kind

\* get_strict<S>(): std::holds_alternative<S>(content) ? std::get<S>(content) : throw
get_strict(val, S) == {IF alternative(val) = S THEN Returns(val) ELSE bad_cast}

\* The member as_<name> called on val.
as_member(name, val) ==
    CASE name = "as_null" -> as_null(val)
      [] name = "as_boolean" -> as_boolean(val)
      [] name = "as_number" -> as_number(val)
      [] name = "as_integer" -> as_integer(val)
      [] name = "as_string" -> as_string(val)
      [] name = "as_array" -> as_array(val)
      [] OTHER -> as_object(val)

(***************************************************************************)
(* Bounds of the model and the inputs drawn at Init                        *)
(***************************************************************************)
\* Entries of a generated object text (keys may repeat).
MaxEntries == 2

\* Elements of a generated array or object value.
MaxItems == 2

\* Digits of a generated integer part.
MaxDigits == 2

Insert(t, p, j) == SubSeq(t, 1, p) \o j \o SubSeq(t, p + 1, Len(t))

\* Sequences over S of length 1..n.
RECURSIVE SeqsUpTo(_, _)
SeqsUpTo(S, n) ==
    IF n = 0 THEN {}
    ELSE LET shorter == SeqsUpTo(S, n - 1)
         IN  {<<x>> : x \in S} \cup shorter \cup {Append(q, x) : q \in shorter, x \in S}

\* Number literals: sign, integer part, fraction, exponent.
IntParts ==
    {DigitText(d) : d \in SeqsUpTo({0, 1, 9}, MaxDigits)}
    \cup { Text("123"), Text("2147483647"), Text("2147483648"), Text("2147483649"),
           Text("4294967296"), Text("4294967297"), Text("9223372036854775808"),
           Text("18446744073709551615"), Text("18446744073709551616"),
           Text("18446744073709551617"), Text("36893488147419103232"),
           Text("100000000000000000000") }

FracParts == {Text(""), Text("."), Text(".0"), Text(".5"), Text(".25"), Text(".00")}

ExpParts == {Text(""), Text("e"), Text("e0"), Text("e2"), Text("E+1"), Text("e-1")}

NumberTexts ==
    {sg \o i \o f \o e : sg \in {Text(""), Text("-")}, i \in IntParts,
                         f \in FracParts, e \in ExpParts}

\* Short documents, each also taken with one piece of JunkTexts inserted anywhere.
BaseTexts ==
    { Text("1"), Text("-12"), Text("1.5"), Text("1e2"), Text("null"), Text("true"),
      Text("false"), Text("\"a\""), Text("'a'"), Text("[]"), Text("[1]"), Text("[1,2]"),
      Text("[1,2,]"), Text("[[1],{}]"), Text("{}"), Text("{\"a\":1}"), Text("{a:1}"),
      Text("{\"a\":1,}"), Text("{a:[1,],}"), Text("0x1F"), Text("+1"), Text(".5"),
      Text("5."), Text("infinity"), Text("-infinity"), Text("NaN"), Text("1 2"),
      Text("[1,x") }

JunkTexts ==
    { Text(" "), Text("\n"), Text("\t"), Text("\r"), Text("/"), Text("//"), Text("//c\n"),
      Text("//c\r"), Text("/**/"), Text("/* c */"), Text("/***/"), Text("/*"), Text("*"),
      Text(","), Text("x"), Text("1"), Text("]"), Text("}"), Text(":"), Text("\""),
      Text("\\") }

DecoratedTexts ==
    UNION {{Insert(t, p, j) : p \in 0..Len(t), j \in JunkTexts} : t \in BaseTexts}

\* Comments: single-line comments ended by a line end, and block comments.
InnerComments ==
    {Text("//c\n"), Text("//c\r"), Text("//\n"), Text("/**/"), Text("/* c */"), Text("/***/")}

\* Single-line comments ended by the end of the input.
FinalComments == {Text("//"), Text("//c")}

\* Each short document with one comment inserted at index p, or appended.
CommentCases ==
    UNION {{[text |-> Insert(t, p, c), base |-> t, p |-> p] :
                p \in 0..Len(t), c \in InnerComments}
           \cup {[text |-> t \o c, base |-> t, p |-> Len(t)] : c \in FinalComments} :
           t \in BaseTexts}

CommentTexts == {c.text : c \in CommentCases}

\* The inputs of the repository's tests and of the documentation's examples.
CorpusTexts ==
    { Text("{\"foo\":[123,\"baz\"]}"),
      Text("{foo:[123,\"baz\"]}"),
      Text("{ foo: //this is comment\n[123,\"baz\"/*trailing comma-->*/,],}"),
      Text("{ // c\n \"a\":1 }"),
      Text("{\"a\":1,\"a\":2}"),
      Text("123"), Text("123.0"), Text("\"\\u00e9\""), Text("") }

\* Object texts from lists of entries [key, val]; keys may repeat.
EntryKeys == {Text("a"), Text("b")}

EntryValues == {Text("1"), Text("2"), Text("{\"a\":3}"), Text("{\"b\":4}")}

Entries == {[key |-> k, val |-> x] : k \in EntryKeys, x \in EntryValues}

EntryLists == SeqsUpTo(Entries, MaxEntries)

\* "{" key ":" value { "," key ":" value } "}", keys all quoted or all unquoted.
RECURSIVE EntriesText(_, _)
EntriesText(es, quoted) ==
    IF es = <<>> THEN <<>>
    ELSE (IF quoted THEN <<DQUOTE>> \o Head(es).key \o <<DQUOTE>> ELSE Head(es).key)
             \o <<COLON>> \o Head(es).val
             \o (IF Len(es) > 1 THEN <<COMMA>> ELSE <<>>)
             \o EntriesText(Tail(es), quoted)

ObjectText(es, quoted) == <<LBRACE>> \o EntriesText(es, quoted) \o <<RBRACE>>

\* Each generated object text with the entries it was written from.
ObjectCases ==
    {[text |-> ObjectText(es, q), es |-> es, quoted |-> q] : es \in EntryLists, q \in BOOLEAN}

ObjectTexts == {c.text : c \in ObjectCases}

\* Documents without comments whose strings hold letters only: every bracket and
\* comma in them is a token.
PlainTexts ==
    ObjectTexts
    \cup { Text("[1]"), Text("[1,2]"), Text("[[1],{}]"), Text("[\"a\",[true,null]]"),
           Text("{\"a\":1}"), Text("{a:1}"), Text("{\"foo\":[123,\"baz\"]}"),
           Text("{foo:[123,\"baz\"]}"), Text("[ 1 , [ 2 ] ]") }

\* The positions of t behind the last element of a non-empty array or object:
\* before a closing bracket that does not follow an opening bracket or a comma.
LastElementEnds(t) ==
    {p \in 1..(Len(t) - 1) :
        /\ t[p + 1] \in {RBRACKET, RBRACE}
        /\ t[p] \notin {LBRACKET, LBRACE, COMMA, SPACE}}

\* Each plain document with one comma written behind a last element.
TrailingCommaCases ==
    UNION {{[text |-> Insert(t, p, sep), base |-> t] :
                p \in LastElementEnds(t), sep \in {Text(","), Text(" , ")}} :
           t \in PlainTexts}

TrailingCommaTexts == {c.text : c \in TrailingCommaCases}

\* Hexadecimal literals: sign, 0x or 0X, hex digits (none to seventeen).
HexRuns ==
    { Text(""), Text("0"), Text("1F"), Text("1f"), Text("a"), Text("Ff"), Text("7fffffff"),
      Text("80000000"), Text("7FFFFFFFFFFFFFFF"), Text("8000000000000001"),
      Text("FFFFFFFFFFFFFFFF"), Text("10000000000000000") }

HexCases ==
    {[text |-> sg \o px \o h, sign |-> sg, hex |-> h] :
        sg \in {Text(""), Text("-"), Text("+")}, px \in {Text("0x"), Text("0X")},
        h \in HexRuns}

HexTexts == {c.text : c \in HexCases}

\* Escapes of one string literal.
MaxEscapes == 2

\* The four hex digits of \u escapes: the ends of the one-, two- and three-byte
\* ranges and the two halves of a surrogate pair.
UnitTexts ==
    { Text("0041"), Text("007f"), Text("0080"), Text("00E9"), Text("07FF"), Text("0800"),
      Text("D83D"), Text("DE00"), Text("ffff") }

RECURSIVE EscapesText(_)
EscapesText(us) ==
    IF us = <<>> THEN <<>> ELSE <<BACKSLASH, Ord("u")>> \o Head(us) \o EscapesText(Tail(us))

\* String literals of \u escapes with four hex digits each, and literals whose
\* last \u has fewer (tail is what follows the \u).
UnicodeCases ==
    {[text |-> <<DQUOTE>> \o EscapesText(us) \o <<DQUOTE>>, units |-> us, ok |-> TRUE] :
        us \in SeqsUpTo(UnitTexts, MaxEscapes)}
    \cup {[text |-> <<DQUOTE>> \o EscapesText(us) \o <<BACKSLASH, Ord("u")>> \o tail,
           units |-> us, ok |-> FALSE] :
            us \in {<<>>, <<Text("0041")>>},
            tail \in {Text("\""), Text("1\""), Text("12\""), Text("123\""), Text("12G4\""),
                      Text("123"), Text("")}}

UnicodeTexts == {c.text : c \in UnicodeCases}

\* Documents that start with the opening character of an object, array or string
\* and end with its closing character, and the same cut off at every length.
ClosedTexts ==
    { Text("{ foo: //c\n[12,\"b\\u00e9\"/*t*/,],}"),
      Text("{\"a\":[-1.5e2,\"b\\n\",true]}"),
      Text("'a\\\r\nb'"),
      Text("[0x1F,null]") }

TruncatedTexts == UNION {{SubSeq(T, 1, n) : n \in 0..(Len(T) - 1)} : T \in ClosedTexts}

\* String documents: control characters, escapes, quotes and line continuations.
StringTexts ==
    { Text("\"a\tb\""), Text("\"a\nb\""), Text("\"a\\qb\""), Text("\"a\\0\""), Text("\"a\\ b\""),
      Text("'ab'"), Text("'a\"b'"), Text("\"a'b\""), Text("\"a\\'b\""), Text("'a\\'b'"),
      Text("\"a\\\rb\""), Text("\"a\\\r\nb\""), Text("\"a\\\nb\""), Text("\"a\\\n\rb\""),
      Text("'a\\\r\n\\\nb'"), Text("\"a\\\r\""), Text("\"\\/\\b\\f\\n\\r\\t\\\\\\\"\""),
      Text("[\"a\\\r\nb\", 'c\\x']") }

\* Objects whose first key follows the '{' at once.
KeyTexts ==
    { Text("{:1}"), Text("{a1:1}"), Text("{1a:1}"), Text("{a :1}"), Text("{_$:1}"), Text("{a-b:1}"),
      Text("{$:1}"), Text("{a\n:1}"), Text("{A_9z:[]}"), Text("{a"), Text("{a:1,:2}") }

\* Number literals without a digit, and with digits on one side of the point only.
PointTexts ==
    { Text("."), Text("-."), Text("+."), Text(".e1"), Text("-.e1"), Text(".E0"), Text("-"), Text("+"),
      Text(".5"), Text("-.5"), Text("5."), Text("[.]"), Text("[-.,1]") }

\* Literals whose fraction has more digits than unsigned long long holds.
LongFractionTexts ==
    { Text("1.18446744073709551616"), Text("-7.36893488147419103232"),
      Text("0.18446744073709551616e0"), Text("1.18446744073709551617"),
      Text("1.0000000000000000001"), Text("1.05e1"), Text("3e00"), Text("3e01") }

Inputs ==
    LongFractionTexts \cup PointTexts \cup KeyTexts \cup StringTexts \cup UnicodeTexts \cup NumberTexts \cup BaseTexts \cup DecoratedTexts \cup CorpusTexts \cup PlainTexts
    \cup TrailingCommaTexts \cup CommentTexts \cup HexTexts \cup ClosedTexts \cup TruncatedTexts

\* Values handed to the stringifier.
ScalarValues ==
    { Null, Boolean(TRUE), Boolean(FALSE),
      Integer(0), Integer(1), Integer(0 - 1), Integer(42), Integer(INT_MAX), Integer(INT_MIN),
      Float(FALSE, <<1, 5>>, 0 - 1), Float(TRUE, <<2, 5>>, 0 - 2), Float(FALSE, <<2>>, 0),
      Float(FALSE, <<>>, 0), Float(TRUE, <<>>, 0), Float(FALSE, <<1>>, 5), Float(FALSE, <<1>>, 6),
      Float(FALSE, <<1, 2, 3, 4, 5, 6, 7>>, 0), Float(FALSE, <<9, 9, 9, 9, 9, 9, 5>>, 0),
      Float(FALSE, <<1>>, 21), Float(FALSE, <<1, 2, 5>>, 0 - 7), Float(FALSE, <<5>>, 0 - 1),
      NaN, Infinity(FALSE), Infinity(TRUE),
      String(<<>>), String(Text("a")), String(Text("a\"\\/b")), String(<<1, 8, 9, 10, 12, 13, 31>>),
      String(<<127, 128, 195, 169, 255>>), String(Text("'")) }

ItemValues ==
    { Integer(1), Float(FALSE, <<1, 5>>, 0 - 1), String(Text("a")), Array(<<NaN>>) }

ItemKeys == {Text("a"), <<>>}

RECURSIVE MapOf(_)
MapOf(pairs) ==
    IF pairs = <<>> THEN <<>>
    ELSE LET o == MapOf(SubSeq(pairs, 1, Len(pairs) - 1))
             e == pairs[Len(pairs)]
         IN  IF map_contains(o, e.key) THEN map_assign(o, e.key, e.val)
             ELSE map_emplace(o, e.key, e.val)

Values ==
    ScalarValues
    \cup {Array(a) : a \in SeqsUpTo(ItemValues, MaxItems)}
    \cup { Array(<<>>), Object(<<>>),
           Array(<<String(<<1, 34, 92, 128, 255>>), Integer(INT_MIN), Integer(INT_MAX)>>),
           Object(<<[key |-> <<9, 34, 200>>, val |-> String(<<39, 47, 127>>)]>>),
           Array(<<Null, Boolean(TRUE), Array(<<>>), Object(<<>>)>>),
           Array(<<Infinity(TRUE), NaN, Infinity(FALSE)>>),
           Object(<<[key |-> Text("k"), val |-> Array(<<Infinity(FALSE)>>)]>>),
           Object(<<[key |-> Text("k"),
                     val |-> Object(<<[key |-> Text("k"), val |-> Array(<<Integer(1)>>)]>>)]>>) }
    \cup {Object(MapOf(ps)) :
            ps \in SeqsUpTo({[key |-> k, val |-> x] : k \in ItemKeys, x \in ItemValues}, MaxItems)}

\* Indent specifications and flag sets a stringifier is run with.
Indents == {0, 2, 0 - 1}

(***************************************************************************)
(* The state machine: a caller stringifies a value and parses the text,    *)
(* or parses a given text, then reads on from the same stream.             *)
(***************************************************************************)
Init ==
    /\ \/ /\ pc = "value"
          /\ doc \in Values
          /\ istream = Stream(<<>>)
       \/ /\ pc = "text"
          /\ doc = Null
          /\ istream \in {Stream(t) : t \in Inputs}
    /\ sflags = {}
    /\ indent = 0
    /\ ostream = <<>>
    /\ flags = {}
    /\ v = Null
    /\ error = NoError
    /\ nextch = EOF
    /\ ret = NoCall
    /\ serial = 0
    /\ chain = <<>>

\* ostream << preset << options << v, and the text handed on as an input stream.
StringifyWith(F, I) ==
    /\ pc = "value"
    /\ sflags' = F
    /\ indent' = I
    /\ ostream' = do_stringify(F, I, doc)
    /\ istream' = Stream(ostream')
    /\ pc' = "text"
    /\ UNCHANGED <<doc, flags, v, error, nextch, ret, serial, chain>>

\* json5pp::stringify(v), and with manipulators the stream form
\* ostream << rule::ecma404() << manipulators << v, the manipulators being
\* rule::infinity_number(), rule::not_a_number(), rule::crlf_newline() and an indent.
Stringify ==
    \E I \in Indents, opts \in SUBSET {"infinity_number", "not_a_number", "crlf_newline"} :
        StringifyWith(({} \cup opts) \cap stringify_mask, I)

\* json5pp::stringify5(v), and with manipulators the stream form
\* ostream << rule::json5() << manipulators << v.
Stringify5 ==
    \E I \in Indents, nl \in SUBSET {"crlf_newline"} :
        StringifyWith((json5_rules \cup nl) \cap stringify_mask, I)

\* parser<F>(istream) >> v with a default-constructed v; the value is returned
\* unless do_parse throws.
ParseResult(F, r) ==
    /\ flags' = F
    /\ istream' = r.st
    /\ error' = r.err
    /\ v' = r.v
    /\ pc' = IF r.err.thrown THEN "failed" ELSE "parsed"

ParseWith(F) ==
    /\ pc = "text"
    /\ ParseResult(F, do_parse(F, istream, Null))
    /\ UNCHANGED <<doc, sflags, indent, ostream, nextch, ret, serial, chain>>

\* json5pp::parse(istream, finished)
Parse == \E finished \in BOOLEAN : ParseWith(IF finished THEN {"finished"} ELSE {})

\* json5pp::parse5(istream, finished)
Parse5 ==
    \E finished \in BOOLEAN :
        ParseWith(IF finished THEN json5_rules \cup {"finished"} ELSE json5_rules)

\* The caller's next istream.get() on the stream a parse returned from.
Read ==
    /\ pc = "parsed"
    /\ nextch' = Get(istream).ch
    /\ istream' = Get(istream).st
    /\ pc' = "read"
    /\ UNCHANGED <<doc, sflags, indent, ostream, flags, v, error, ret, serial, chain>>

Next == Stringify \/ Stringify5 \/ Parse \/ Parse5 \/ Read

Spec == Init /\ [][Next]_vars

(***************************************************************************)
(* The state machine of the value interface: a caller constructs a value   *)
(* and calls its members, one call per step.                               *)
(***************************************************************************)
\* Arguments of the calls.
Indexes == (0 - 1)..(MaxItems + 2)

Keys == ItemKeys \cup {Text("k"), Text("b")}

Defaults == {Null, Integer(7)}

\* Strings and numbers a value is constructed from, besides Values.
StoredValues ==
    { String(Text("12")), String(Text(" -7x")), String(Text("+1.5")), String(Text("true")),
      String(Text("hello")), String(Text("99999999999")), String(Text("-2147483648")),
      String(Text("1e5")), String(Text(".5e-2x")), String(Text("-Infinity")), String(Text("nan")),
      String(Text("-0")), String(Text("1e999")), String(Text("1e")), String(Text(".")),
      Integer(300), Float(TRUE, <<2, 2, 5>>, 0 - 2), Float(FALSE, <<5>>, 0 - 7),
      Float(FALSE, <<1, 5>>, 0 - 7), Float(FALSE, <<9, 9, 9, 9, 9, 9, 9, 6>>, 0 - 7),
      Float(FALSE, <<1>>, 10), Float(TRUE, <<2, 1, 4, 7, 4, 8, 3, 6, 4, 8, 9>>, 0 - 1) }

\* The types T of get<T>.
Targets == {"int", "double", "bool", "string"}

ValueInit ==
    /\ pc = "object"
    /\ doc \in Values \cup StoredValues
    /\ v = doc
    /\ ret = NoCall
    /\ serial = 0
    /\ chain = <<>>
    /\ istream = Stream(<<>>)
    /\ sflags = {}
    /\ indent = 0
    /\ ostream = <<>>
    /\ flags = {}
    /\ error = NoError
    /\ nextch = EOF

\* A call of a const member: v and everything else stay as they are.
ConstCall(op, index, key, arg, out) ==
    /\ pc = "object"
    /\ ret' = Call(op, index, key, arg, v, out)
    /\ UNCHANGED <<pc, doc, sflags, indent, ostream, istream, flags, v, error, nextch, serial, chain>>

\* v.at(index, default_value)
AtIndexDefault ==
    \E index \in Indexes, d \in Defaults :
        ConstCall("at(index,default)", index, <<>>, d, Returns(at_index(v, index, d)))

\* v.at(key, default_value)
AtKeyDefault ==
    \E key \in Keys, d \in Defaults :
        ConstCall("at(key,default)", 0, key, d, Returns(at_key(v, key, d)))

\* v.at(index)
AtIndex == \E index \in Indexes : ConstCall("at(index)", index, <<>>, Null, at_index_null(v, index))

\* v[index]
SubscriptIndex ==
    \E index \in Indexes : ConstCall("[index]", index, <<>>, Null, subscript_index(v, index))

\* v.at(key)
AtKey == \E key \in Keys : ConstCall("at(key)", 0, key, Null, at_key_null(v, key))

\* v[key]
SubscriptKey == \E key \in Keys : ConstCall("[key]", 0, key, Null, subscript_key(v, key))

\* v.get<T, auto_conversion>()
GetAs ==
    \E T \in Targets, auto_conversion \in BOOLEAN :
        \E out \in get(v, T, auto_conversion) :
            ConstCall("get", 0, <<>>, [T |-> T, auto_conversion |-> auto_conversion], out)

\* The members as_null .. as_object.
AsMembers ==
    {"as_null", "as_boolean", "as_number", "as_integer", "as_string", "as_array", "as_object"}

\* The types S of get_strict<S>: alternatives of std::variant content; long is one
\* no value of the model holds.
Alternatives == {"bool", "int", "long", "double", "string"}

\* v.as_null() .. v.as_object()
AsCase ==
    \E name \in AsMembers :
        \E out \in as_member(name, v) : ConstCall(name, 0, <<>>, Null, out)

\* v.get_strict<S>()
GetStrict ==
    \E S \in Alternatives :
        \E out \in get_strict(v, S) : ConstCall("get_strict", 0, <<>>, [T |-> S], out)

\* The caller appends at most MaxAppends elements; the k-th element appended is
\* the integer k.
MaxAppends == 2

\* A call of an array modifier on an array: v becomes what the modifier leaves.
ModifierCall(op, index, arg, after) ==
    /\ pc = "object"
    /\ v.kind = "array"
    /\ v' = after
    /\ ret' = Call(op, index, <<>>, arg, v, Returns(after))
    /\ UNCHANGED <<pc, doc, sflags, indent, ostream, istream, flags, error, nextch, chain>>

\* v.append(element)
AppendElement ==
    /\ serial < MaxAppends
    /\ serial' = serial + 1
    /\ ModifierCall("append", 0, Integer(serial + 1), append(v, Integer(serial + 1)))

\* v.erase(index)
EraseElement ==
    /\ v.kind = "array"
    /\ \E index \in 0..(Len(v.a) - 1) : ModifierCall("erase", index, Null, erase(v, index))
    /\ UNCHANGED serial

\* v.clear()
ClearElements ==
    /\ ModifierCall("clear", 0, Null, clear(v))
    /\ UNCHANGED serial

ValueNext ==
    \/ AtIndexDefault \/ AtKeyDefault \/ AtIndex \/ SubscriptIndex \/ AtKey \/ SubscriptKey
    \/ AppendElement \/ EraseElement \/ ClearElements
    \/ GetAs \/ AsCase \/ GetStrict

ValueSpec == ValueInit /\ [][ValueNext]_vars

(***************************************************************************)
(* The state machine of the options: manipulators are applied to a         *)
(* std::istream, which gives a parser<F>, or to a std::ostream, which      *)
(* gives a stringifier<F, I>, and then to that parser or stringifier.      *)
(***************************************************************************)
\* The caller applies at most MaxManipulators manipulators to a stream.
MaxManipulators == 3

OptionsInit ==
    /\ pc = "stream"
    /\ chain = <<>>
    /\ flags = {}
    /\ sflags = {}
    /\ indent = 0
    /\ doc = Null
    /\ v = Null
    /\ ret = NoCall
    /\ serial = 0
    /\ istream = Stream(<<>>)
    /\ ostream = <<>>
    /\ error = NoError
    /\ nextch = EOF

\* A manipulator applied: the parser or stringifier returned has the flags F and
\* the indent I.
Applied(to, manip, F, I) ==
    /\ pc' = to
    /\ chain' = Append(chain, manip)
    /\ flags' = (IF to = "parser" THEN F ELSE flags)
    /\ sflags' = (IF to = "stringifier" THEN F ELSE sflags)
    /\ indent' = (IF to = "stringifier" THEN I ELSE indent)
    /\ UNCHANGED <<doc, ostream, istream, v, error, nextch, ret, serial>>

\* A flag manipulator of namespace rule, or one negated with operator-().
FlagManipulators == flag_rules \cup {negate(manip) : manip \in flag_rules}

\* istream >> manipulator_flags<S, C>
IstreamFlags ==
    /\ pc = "stream"
    /\ \E manip \in FlagManipulators : Applied("parser", manip, istream_flags(manip), 0)

\* istream >> manipulator_indent<I> : parser<0>(istream) >> manip
IstreamIndent ==
    /\ pc = "stream"
    /\ \E manip \in indent_rules : Applied("parser", manip, {}, 0)

\* ostream << manipulator_flags<S, C>
OstreamFlags ==
    /\ pc = "stream"
    /\ \E manip \in FlagManipulators : Applied("stringifier", manip, ostream_flags(manip), 0)

\* ostream << manipulator_indent<I> : stringifier<0, 0>(ostream) << manip
OstreamIndent ==
    /\ pc = "stream"
    /\ \E manip \in indent_rules : Applied("stringifier", manip, {}, manip.I)

\* parser<F> >> manipulator_flags<S, C>
ParserFlags ==
    /\ pc = "parser"
    /\ Len(chain) < MaxManipulators
    /\ \E manip \in FlagManipulators : Applied("parser", manip, parser_flags(flags, manip), 0)

\* parser<F> >> manipulator_indent<NI> : return *this
ParserIndent ==
    /\ pc = "parser"
    /\ Len(chain) < MaxManipulators
    /\ \E manip \in indent_rules : Applied("parser", manip, flags, 0)

\* stringifier<F, I> << manipulator_flags<S, C>
StringifierFlags ==
    /\ pc = "stringifier"
    /\ Len(chain) < MaxManipulators
    /\ \E manip \in FlagManipulators :
            Applied("stringifier", manip, stringifier_flags(sflags, manip), indent)

\* stringifier<F, I> << manipulator_indent<NI> : stringifier<F, NI>
StringifierIndent ==
    /\ pc = "stringifier"
    /\ Len(chain) < MaxManipulators
    /\ \E manip \in indent_rules : Applied("stringifier", manip, sflags, manip.I)

OptionsNext ==
    \/ IstreamFlags \/ IstreamIndent \/ OstreamFlags \/ OstreamIndent
    \/ ParserFlags \/ ParserIndent \/ StringifierFlags \/ StringifierIndent

OptionsSpec == OptionsInit /\ [][OptionsNext]_vars

(***************************************************************************)
(* Properties                                                              *)
(***************************************************************************)
\* A parse action has run on the text in istream.
Parsed == pc \in {"parsed", "failed"}

\* The text in istream was written by a stringifier run with flags F and indent 0.
WrittenWith(F) == (ostream # <<>>) /\ (istream.txt = ostream) /\ (sflags = F) /\ (indent = 0)

\* The tree of val holds a NaN or an infinite number.
RECURSIVE HasNonFinite(_)
HasNonFinite(val) ==
    IF val.kind = "float" THEN val.cls # "finite"
    ELSE IF val.kind = "array" THEN \E k \in 1..Len(val.a) : HasNonFinite(val.a[k])
    ELSE IF val.kind = "object" THEN \E k \in 1..Len(val.o) : HasNonFinite(val.o[k].val)
    ELSE FALSE

\* C1: strict round trip.  For every value doc without NaN and infinite numbers,
\* parse(stringify(doc)) succeeds and the result compares equal (operator==) to doc.
C1_StrictRoundTrip ==
    (Parsed /\ WrittenWith({}) /\ (flags = {"finished"}) /\ ~HasNonFinite(doc))
        => ((pc = "parsed") /\ value_equal(v, doc))

\* C2: permissive round trip.  For every value doc, NaN and infinite numbers
\* included, parse5(stringify5(doc)) succeeds and the result compares equal
\* (operator==) to doc.
C2_PermissiveRoundTrip ==
    (Parsed /\ WrittenWith({"infinity_number", "not_a_number"})
            /\ (flags = json5_rules \cup {"finished"}))
        => ((pc = "parsed") /\ value_equal(v, doc))

\* The number of decimal digits of t from index i on.
RECURSIVE DigitRun(_, _)
DigitRun(t, i) ==
    IF (i <= Len(t)) /\ (t[i] \in ZERO..NINE) THEN 1 + DigitRun(t, i + 1) ELSE 0

\* The decimal literal t of the JSON grammar taken apart:
\*   [ "-" ] digits [ "." digits ] [ ("e" | "E") [ "+" | "-" ] digits ]
\* without a leading zero before another digit.  b, c and d are the indices behind
\* the integer part, the fraction and the exponent.
LiteralParts(t) ==
    LET a == IF (t # <<>>) /\ (t[1] = MINUS) THEN 2 ELSE 1
        n1 == DigitRun(t, a)
        b == a + n1
        has_frac == (b <= Len(t)) /\ (t[b] = DOT)
        n2 == IF has_frac THEN DigitRun(t, b + 1) ELSE 0
        c == IF has_frac THEN b + 1 + n2 ELSE b
        has_exp == (c <= Len(t)) /\ (t[c] \in {Ord("e"), Ord("E")})
        x == IF has_exp /\ (c + 1 <= Len(t)) /\ (t[c + 1] \in {PLUS, MINUS}) THEN c + 2 ELSE c + 1
        n3 == IF has_exp THEN DigitRun(t, x) ELSE 0
        d == IF has_exp THEN x + n3 ELSE c
    IN  [ valid |-> /\ n1 >= 1
                    /\ (n1 = 1) \/ (t[a] # ZERO)
                    /\ has_frac => (n2 >= 1)
                    /\ has_exp => (n3 >= 1)
                    /\ d = Len(t) + 1,
          negative |-> a = 2,
          int |-> [k \in 1..n1 |-> t[a + k - 1] - ZERO],
          has_frac |-> has_frac,
          has_exp |-> has_exp ]

\* Digit sequences without leading zeros compared as numbers: a <= b.
RECURSIVE DigitsLessEq(_, _)
DigitsLessEq(a, b) ==
    IF Len(a) # Len(b) THEN Len(a) < Len(b)
    ELSE IF a = <<>> THEN TRUE
    ELSE IF Head(a) # Head(b) THEN Head(a) < Head(b)
    ELSE DigitsLessEq(Tail(a), Tail(b))

\* The integer -d or d lies in INT_MIN..INT_MAX.
FitsInt(negative, d) ==
    IF negative THEN DigitsLessEq(d, <<2, 1, 4, 7, 4, 8, 3, 6, 4, 8>>)
    ELSE DigitsLessEq(d, <<2, 1, 4, 7, 4, 8, 3, 6, 4, 7>>)

\* Minus the number the digits d write, added to acc * 10^Len(d).
RECURSIVE MinusDigits(_, _)
MinusDigits(d, acc) == IF d = <<>> THEN acc ELSE MinusDigits(Tail(d), acc * 10 - Head(d))

IntegerOf(negative, d) == IF negative THEN MinusDigits(d, 0) ELSE 0 - MinusDigits(d, 0)

\* The literal l has neither a fraction nor an exponent.
PlainInteger(l) == l.valid /\ ~l.has_frac /\ ~l.has_exp

\* What C3 says of the literal l the parser was given.
IntegerPreserved(l) ==
    /\ (PlainInteger(l) /\ FitsInt(l.negative, l.int))
            => ((pc = "parsed") /\ (v = Integer(IntegerOf(l.negative, l.int))))
    /\ (l.valid /\ (l.has_frac \/ l.has_exp))
            => ((pc = "parsed") /\ (v.kind = "float"))

\* C3: integer preservation.  Parsing a decimal literal without fraction and exponent
\* whose value fits int yields the Integer of that value; parsing a literal with a
\* fraction or an exponent yields a Float.
C3_IntegerPreservation == Parsed => IntegerPreserved(LiteralParts(istream.txt))

\* What C4 says of the literal l the parser was given.
OverflowFallsBack(l) ==
    (PlainInteger(l) /\ ~FitsInt(l.negative, l.int)) => ((pc = "parsed") /\ (v.kind = "float"))

\* C4: overflow fallback.  Parsing a decimal literal without fraction and exponent
\* whose integer part lies outside the int range yields a Float, never an Integer,
\* whatever the length of the digit string.
C4_OverflowFallback == Parsed => OverflowFallsBack(LiteralParts(istream.txt))

\* The index behind the first CR or LF of t at or after i (Len(t) + 1 without one).
RECURSIVE LineEnd(_, _)
LineEnd(t, i) ==
    IF i > Len(t) THEN Len(t) + 1
    ELSE IF t[i] \in {CR, LF} THEN i + 1
    ELSE LineEnd(t, i + 1)

\* The index behind the first "*/" of t at or after i (0 without one).
RECURSIVE BlockEnd(_, _)
BlockEnd(t, i) ==
    IF i + 1 > Len(t) THEN 0
    ELSE IF (t[i] = STAR) /\ (t[i + 1] = SLASH) THEN i + 2
    ELSE BlockEnd(t, i + 1)

\* t from index i on consists of whitespace and, where the flags F enable them,
\* of single-line comments and block comments.
RECURSIVE BlankFrom(_, _, _)
BlankFrom(F, t, i) ==
    IF i > Len(t) THEN TRUE
    ELSE IF t[i] \in {SPACE, TAB, CR, LF} THEN BlankFrom(F, t, i + 1)
    ELSE IF (t[i] # SLASH) \/ (i = Len(t)) THEN FALSE
    ELSE IF (t[i + 1] = SLASH) /\ ("single_line_comment" \in F)
    THEN BlankFrom(F, t, LineEnd(t, i + 2))
    ELSE IF (t[i + 1] = STAR) /\ ("multi_line_comment" \in F) /\ (BlockEnd(t, i + 2) # 0)
    THEN BlankFrom(F, t, BlockEnd(t, i + 2))
    ELSE FALSE

\* The number of bytes the stream st has delivered and not taken back.
Consumed(st) == IF st.fail THEN Len(st.txt) ELSE st.pos - 1

\* The number of bytes of t a parse of one value with the rules of F reads
\* (the top-level value with what precedes it).
ValueEnd(F, t) == Consumed(do_parse(F \ {"finished"}, Stream(t), Null).st)

\* C5: finished mode.  parse and parse5 with finished = true succeed only if the
\* rest of the input behind the top-level value is whitespace (and comments, under
\* the rules that enable them).
C5_FinishedMode ==
    ((pc = "parsed") /\ ("finished" \in flags))
        => BlankFrom(flags, istream.txt, ValueEnd(flags, istream.txt) + 1)

\* What C6 says of a streaming parse with the rules F that stored val, read the
\* prefix P of the input and left c as the next character: P ends with the last
\* character of a value, P alone is a complete input of value val, and c (unless it
\* starts whitespace or a comment) does not continue the value.
ExactlyTheValue(F, P, val, c) ==
    /\ P # <<>>
    /\ P[Len(P)] \notin {SPACE, TAB, CR, LF, SLASH}
    /\ do_parse(F \cup {"finished"}, Stream(P), Null) = [st |-> do_parse(F \cup {"finished"}, Stream(P), Null).st, err |-> NoError, v |-> val]
    /\ (c \notin {EOF, SPACE, TAB, CR, LF, SLASH})
            => do_parse(F \cup {"finished"}, Stream(Append(P, c)), Null).err.thrown

\* What the parser had read of the input when the caller read nextch.
ReadPrefix ==
    IF nextch = EOF THEN istream.txt ELSE SubSeq(istream.txt, 1, istream.pos - 2)

\* C6: streaming mode.  parse and parse5 with finished = false consume exactly the
\* characters of the first value: the next read from the stream returns the first
\* character behind the value (EOF when there is none).
C6_StreamingMode ==
    ((pc = "read") /\ ("finished" \notin flags))
        => /\ ExactlyTheValue(flags, ReadPrefix, v, nextch)
           /\ nextch = (IF Len(ReadPrefix) = Len(istream.txt) THEN EOF
                        ELSE istream.txt[Len(ReadPrefix) + 1])

\* parse(istream, false) over "1 2" stored Integer 1 and the caller read ' ' next,
\* with "2" left in the stream.
C6_Witness ==
    /\ pc = "read"
    /\ flags = {}
    /\ istream.txt = Text("1 2")
    /\ v = Integer(1)
    /\ nextch = SPACE
    /\ Rest(istream) = Text("2")

\* The value an entry's value text writes: what the strict parser makes of it alone.
ValueOfText(t) == do_parse({"finished"}, Stream(t), Null).v

\* No later entry of es has the key of the i-th.
LastOccurrence(es, i) == \A j \in (i + 1)..Len(es) : es[j].key # es[i].key

HasDuplicateKey(es) == \E i \in 1..Len(es) : ~LastOccurrence(es, i)

\* val is an object with exactly the keys of es, each once, mapped to the value of
\* its last entry in es.
LastWins(es, val) ==
    /\ val.kind = "object"
    /\ \A i \in 1..Len(es) : Cardinality({n \in 1..Len(val.o) : val.o[n].key = es[i].key}) = 1
    /\ \A n \in 1..Len(val.o) : \E i \in 1..Len(es) : es[i].key = val.o[n].key
    /\ \A i \in 1..Len(es) :
          LastOccurrence(es, i) => (at_key(val, es[i].key, Null) = ValueOfText(es[i].val))

\* C7: duplicate object keys.  Parsing an object in which a key occurs more than
\* once succeeds; the result holds the key once, with the value of its last
\* occurrence and nothing of the earlier ones.
C7_DuplicateKeys ==
    (Parsed /\ (istream.txt \in ObjectTexts))
        => \A c \in ObjectCases :
              ((c.text = istream.txt) /\ HasDuplicateKey(c.es)
                    /\ (c.quoted \/ ("unquoted_key" \in flags)))
                  => ((pc = "parsed") /\ LastWins(c.es, v))

\* The strict parser was given {"a":{"a":3},"a":{"b":4}} and stored {"a":{"b":4}}.
C7_Witness ==
    /\ pc = "parsed"
    /\ flags = {"finished"}
    /\ istream.txt = Text("{\"a\":{\"a\":3},\"a\":{\"b\":4}}")
    /\ v = Object(<<[key |-> Text("a"),
                     val |-> Object(<<[key |-> Text("b"), val |-> Integer(4)]>>)]>>)

\* C8: trailing comma.  With the trailing_comma flag an array or object whose last
\* element is followed by one comma parses to the value of the input without that
\* comma; without the flag the input fails with a syntax_error.
C8_TrailingComma ==
    (Parsed /\ (istream.txt \in TrailingCommaTexts))
        => \A c \in TrailingCommaCases :
              (c.text = istream.txt)
                  => IF "trailing_comma" \in flags
                     THEN /\ pc = "parsed"
                          /\ ~do_parse(flags, Stream(c.base), Null).err.thrown
                          /\ v = do_parse(flags, Stream(c.base), Null).v
                     ELSE pc = "failed"

\* parse5 was given "[1,2,]" and stored the array of 1 and 2.
C8_Witness ==
    /\ pc = "parsed"
    /\ flags = json5_rules \cup {"finished"}
    /\ istream.txt = Text("[1,2,]")
    /\ v = Array(<<Integer(1), Integer(2)>>)

\* C9: unquoted keys.  Under the permissive preset an object written with unquoted
\* identifier keys parses and each value is retrievable under its identifier; under
\* the strict preset the input fails with a syntax_error.
C9_UnquotedKeys ==
    (Parsed /\ (istream.txt \in ObjectTexts))
        => \A c \in ObjectCases :
              ((c.text = istream.txt) /\ ~c.quoted)
                  => IF "unquoted_key" \in flags
                     THEN /\ pc = "parsed"
                          /\ \A i \in 1..Len(c.es) :
                                LastOccurrence(c.es, i)
                                    => (at_key(v, c.es[i].key, Null) = ValueOfText(c.es[i].val))
                     ELSE pc = "failed"

\* parse5 was given "{a:1}" and the value under "a" is Integer 1.
C9_Witness ==
    /\ pc = "parsed"
    /\ flags = json5_rules \cup {"finished"}
    /\ istream.txt = Text("{a:1}")
    /\ at_key(v, Text("a"), Null) = Integer(1)

\* parse5 accepts t, and t with a space inserted at index p, with the same value:
\* p is a position between tokens where whitespace is allowed.
WhitespaceAllowed(t, p) ==
    /\ ~do_parse(json5_rules \cup {"finished"}, Stream(t), Null).err.thrown
    /\ ~do_parse(json5_rules \cup {"finished"}, Stream(Insert(t, p, <<SPACE>>)), Null).err.thrown
    /\ do_parse(json5_rules \cup {"finished"}, Stream(Insert(t, p, <<SPACE>>)), Null).v
            = do_parse(json5_rules \cup {"finished"}, Stream(t), Null).v

\* C10: comment skipping.  Under the permissive preset a single-line comment or a
\* block comment inserted where whitespace is allowed between tokens does not
\* change the parsed value; under the strict preset the input fails with a
\* syntax_error.
C10_CommentSkipping ==
    (Parsed /\ ("finished" \in flags) /\ (istream.txt \in CommentTexts))
        => \A c \in CommentCases :
              ((c.text = istream.txt) /\ WhitespaceAllowed(c.base, c.p))
                  => IF {"single_line_comment", "multi_line_comment"} \subseteq flags
                     THEN /\ pc = "parsed"
                          /\ v = do_parse(flags, Stream(c.base), Null).v
                     ELSE pc = "failed"

\* parse5 was given {"a":1} with the comment "//c" and a line feed behind the
\* opening brace and stored the object of "a" and 1.
C10_Witness ==
    /\ pc = "parsed"
    /\ flags = json5_rules \cup {"finished"}
    /\ istream.txt = Insert(Text("{\"a\":1}"), 1, Text("//c\n"))
    /\ v = Object(<<[key |-> Text("a"), val |-> Integer(1)]>>)

\* The value of one hex digit, either case.
HexDigitValue(c) ==
    IF (c >= Ord("0")) /\ (c <= Ord("9")) THEN c - Ord("0")
    ELSE IF (c >= Ord("a")) /\ (c <= Ord("f")) THEN 10 + (c - Ord("a"))
    ELSE 10 + (c - Ord("A"))

\* The decimal digits of d * m + a, d a decimal digit sequence.
RECURSIVE DecMulAdd(_, _, _)
DecMulAdd(d, m, a) ==
    IF (d = <<>>) /\ (a = 0) THEN <<>>
    ELSE IF d = <<>> THEN Append(DecMulAdd(<<>>, m, a \div 10), a % 10)
    ELSE Append(DecMulAdd(SubSeq(d, 1, Len(d) - 1), m, (d[Len(d)] * m + a) \div 10),
                (d[Len(d)] * m + a) % 10)

\* The decimal digits of the number written by the hex digits h.
RECURSIVE HexDecimal(_)
HexDecimal(h) ==
    IF h = <<>> THEN <<>>
    ELSE DecMulAdd(HexDecimal(SubSeq(h, 1, Len(h) - 1)), 16, HexDigitValue(h[Len(h)]))

\* C11: hex literals.  Under the permissive preset a literal of an optional sign,
\* 0x or 0X and one or more hex digits parses to the Float equal to the signed
\* hexadecimal value, never to an Integer; without a hex digit it is a
\* syntax_error; the strict preset does not accept the literal (an error in
\* finished mode, the literal not consumed in streaming mode).
C11_HexLiterals ==
    (Parsed /\ (istream.txt \in HexTexts))
        => \A c \in HexCases :
              (c.text = istream.txt)
                  => IF json5_rules \subseteq flags
                     THEN IF c.hex = <<>> THEN pc = "failed"
                          ELSE /\ pc = "parsed"
                               /\ v.kind = "float"
                               /\ value_equal(v, Float(c.sign = Text("-"), HexDecimal(c.hex), 0))
                     ELSE IF "finished" \in flags THEN pc = "failed"
                          ELSE (pc = "parsed") => (Rest(istream) # <<>>)

\* C11 for literals of a value below 2^63: the part of C11 the code meets.
C11_HexLiteralsInRange ==
    (Parsed /\ (istream.txt \in HexTexts))
        => \A c \in HexCases :
              ((c.text = istream.txt) /\ (Len(c.hex) <= 16)
                    /\ ((Len(c.hex) < 16) \/ (HexDigitValue(c.hex[1]) < 8)))
                  => IF json5_rules \subseteq flags
                     THEN IF c.hex = <<>> THEN pc = "failed"
                          ELSE /\ pc = "parsed"
                               /\ v.kind = "float"
                               /\ value_equal(v, Float(c.sign = Text("-"), HexDecimal(c.hex), 0))
                     ELSE IF "finished" \in flags THEN pc = "failed"
                          ELSE (pc = "parsed") => (Rest(istream) # <<>>)

\* parse5 was given "-0X1f" and stored the Float -31.
C11_Witness ==
    /\ pc = "parsed"
    /\ flags = json5_rules \cup {"finished"}
    /\ istream.txt = Text("-0X1f")
    /\ v = Float(TRUE, <<3, 1>>, 0)

\* The 16-bit code unit written by four hex digits.
CodeUnit(h) ==
    ((HexDigitValue(h[1]) * 16 + HexDigitValue(h[2])) * 16 + HexDigitValue(h[3])) * 16
        + HexDigitValue(h[4])

\* UTF-8 of a code unit: 0xxxxxxx below 0x80, 110xxxxx 10xxxxxx below 0x800,
\* 1110xxxx 10xxxxxx 10xxxxxx otherwise.
Utf8Of(code) ==
    IF code < 128 THEN <<code>>
    ELSE IF code < 2048 THEN <<192 + (code \div 64), 128 + (code % 64)>>
    ELSE <<224 + (code \div 4096), 128 + ((code % 4096) \div 64), 128 + (code % 64)>>

\* The encodings of the units, each on its own, one after the other.
RECURSIVE Utf8OfUnits(_)
Utf8OfUnits(us) ==
    IF us = <<>> THEN <<>> ELSE Utf8Of(CodeUnit(Head(us))) \o Utf8OfUnits(Tail(us))

\* C12: unicode escapes.  A string of \uXXXX escapes parses to the bytes of the
\* UTF-8 encodings of the 16-bit code units (one, two or three bytes each), each
\* escape encoded on its own (surrogate halves are not combined); a \u followed
\* by fewer than four hex digits is a syntax_error.
C12_UnicodeEscape ==
    (Parsed /\ (istream.txt \in UnicodeTexts))
        => \A c \in UnicodeCases :
              (c.text = istream.txt)
                  => IF c.ok
                     THEN /\ pc = "parsed"
                          /\ v = String(Utf8OfUnits(c.units))
                          /\ \A i \in 1..Len(c.units) :
                                Len(Utf8Of(CodeUnit(c.units[i])))
                                    = (IF CodeUnit(c.units[i]) < 128 THEN 1
                                       ELSE IF CodeUnit(c.units[i]) < 2048 THEN 2 ELSE 3)
                     ELSE pc = "failed"

\* The strict parser was given the surrogate pair "\uD83D\uDE00" and stored the
\* six bytes of the two halves.
C12_Witness ==
    /\ pc = "parsed"
    /\ flags = {"finished"}
    /\ istream.txt = <<DQUOTE>> \o EscapesText(<<Text("D83D"), Text("DE00")>>) \o <<DQUOTE>>
    /\ v = String(<<237, 160, 189, 237, 184, 128>>)

\* The indent unit of an indent specification: I spaces, or -I tabs.
IndentUnit(I) == IF I > 0 THEN [k \in 1..I |-> SPACE] ELSE [k \in 1..(0 - I) |-> TAB]

\* The lines val is laid out on at nesting depth d, as [depth, text] records: head
\* is written before the value on its first line, last behind it on its last
\* line, colon between a key and its value.  A scalar or an empty collection is
\* one line; a non-empty collection opens on the first line, has each element
\* on lines of depth d + 1 and closes on a line of depth d.
RECURSIVE LayoutLines(_, _, _, _, _, _)
RECURSIVE ElementLines(_, _, _, _, _)
LayoutLines(F, val, d, head, last, colon) ==
    IF (val.kind = "array") /\ (val.a # <<>>)
    THEN <<[depth |-> d, text |-> head \o <<LBRACKET>>]>>
             \o ElementLines(F, val, d + 1, colon, 1)
             \o <<[depth |-> d, text |-> <<RBRACKET>> \o last]>>
    ELSE IF (val.kind = "object") /\ (val.o # <<>>)
    THEN <<[depth |-> d, text |-> head \o <<LBRACE>>]>>
             \o ElementLines(F, val, d + 1, colon, 1)
             \o <<[depth |-> d, text |-> <<RBRACE>> \o last]>>
    ELSE <<[depth |-> d, text |-> head \o stringify_value(F, 0, val, <<>>) \o last]>>

\* The lines of the elements of the collection val from the k-th on.
ElementLines(F, val, d, colon, k) ==
    LET n == IF val.kind = "array" THEN Len(val.a) ELSE Len(val.o)
        comma == IF k < n THEN <<COMMA>> ELSE <<>>
    IN  IF k > n THEN <<>>
        ELSE (IF val.kind = "array"
              THEN LayoutLines(F, val.a[k], d, <<>>, comma, colon)
              ELSE LayoutLines(F, val.o[k].val, d,
                               stringify_string(val.o[k].key) \o colon, comma, colon))
             \o ElementLines(F, val, d, colon, k + 1)

\* The lines one below the other, each behind depth times the indent unit.
RECURSIVE RenderLines(_, _, _)
RenderLines(lines, unit, newline) ==
    IF lines = <<>> THEN <<>>
    ELSE (IF Head(lines).depth = 0 THEN <<>>
          ELSE unit \o RenderLines(<<[Head(lines) EXCEPT !.depth = @ - 1,
                                                          !.text = <<>>]>>, unit, newline))
         \o Head(lines).text
         \o (IF Len(lines) > 1 THEN newline ELSE <<>>)
         \o RenderLines(Tail(lines), unit, newline)

\* The texts of the lines one behind the other.
RECURSIVE JoinLines(_)
JoinLines(lines) == IF lines = <<>> THEN <<>> ELSE Head(lines).text \o JoinLines(Tail(lines))

\* A value was written with indent specification I.
Written(I) == (ostream # <<>>) /\ (indent = I)

\* C13: indentation.  With a non-zero indent every element of a non-empty array or
\* object is on its own line behind (nesting depth x indent unit), an object entry
\* is key, colon, one space, value, and the closing bracket is on its own line at
\* the parent's indent; with no indent the tokens follow each other without
\* whitespace; an empty collection is written [] or {} in both modes.
C13_Indentation ==
    /\ \A I \in Indents \ {0} :
          Written(I)
              => (ostream = RenderLines(LayoutLines(sflags, doc, 0, <<>>, <<>>, <<COLON, SPACE>>),
                                        IndentUnit(I), get_newline(sflags)))
    /\ Written(0) => (ostream = JoinLines(LayoutLines(sflags, doc, 0, <<>>, <<>>, <<COLON>>)))
    /\ (ostream # <<>>)
          => /\ (doc = Array(<<>>)) => (ostream = Text("[]"))
             /\ (doc = Object(<<>>)) => (ostream = Text("{}"))

\* {"k":{"k":[1]}} was written with an indent of two spaces: seven lines, the
\* element 1 behind six spaces.
C13_Witness ==
    /\ Written(2)
    /\ "crlf_newline" \notin sflags
    /\ doc = Object(<<[key |-> Text("k"),
                       val |-> Object(<<[key |-> Text("k"), val |-> Array(<<Integer(1)>>)]>>)]>>)
    /\ ostream = Text("{\n  \"k\": {\n    \"k\": [\n      1\n    ]\n  }\n}")

\* val with each NaN node replaced by null unless F has not_a_number, and each
\* infinite node replaced by null unless F has infinity_number.
RECURSIVE NullIfForbidden(_, _)
NullIfForbidden(F, val) ==
    IF val.kind = "float"
    THEN IF (val.cls = "nan") /\ ("not_a_number" \notin F) THEN Null
         ELSE IF (val.cls = "inf") /\ ("infinity_number" \notin F) THEN Null
         ELSE val
    ELSE IF val.kind = "array"
    THEN Array([k \in 1..Len(val.a) |-> NullIfForbidden(F, val.a[k])])
    ELSE IF val.kind = "object"
    THEN Object([k \in 1..Len(val.o) |->
                    [key |-> val.o[k].key, val |-> NullIfForbidden(F, val.o[k].val)]])
    ELSE val

\* t holds w as a run of consecutive bytes.
Holds(t, w) == \E i \in 0..(Len(t) - Len(w)) : SubSeq(t, i + 1, i + Len(w)) = w

\* C14: NaN and infinity output policy.  A NaN node is written null unless the
\* not_a_number flag is set (then NaN); an infinite node is written null unless the
\* infinity_number flag is set (then infinity or -infinity by sign).  So the strict
\* preset writes no NaN or infinity literal and the permissive preset writes one
\* for every such node.
C14_NonFinitePolicy ==
    (ostream # <<>>)
        => /\ (doc = NaN)
                => (ostream = IF "not_a_number" \in sflags THEN Text("NaN") ELSE Text("null"))
           /\ (doc = Infinity(FALSE))
                => (ostream = IF "infinity_number" \in sflags THEN Text("infinity")
                              ELSE Text("null"))
           /\ (doc = Infinity(TRUE))
                => (ostream = IF "infinity_number" \in sflags THEN Text("-infinity")
                              ELSE Text("null"))
           /\ ostream = do_stringify({"infinity_number", "not_a_number"} \cup sflags, indent,
                                     NullIfForbidden(sflags, doc))
           /\ (sflags \cap {"infinity_number", "not_a_number"} = {})
                => (~Holds(ostream, Text("NaN")) /\ ~Holds(ostream, Text("infinity")))
           /\ (({"infinity_number", "not_a_number"} \subseteq sflags) /\ HasNonFinite(doc))
                => (Holds(ostream, Text("NaN")) \/ Holds(ostream, Text("infinity")))

\* [-infinity, NaN, infinity] was written with the infinity_number flag alone:
\* the NaN node is null, the infinite nodes are literals.
C14_Witness ==
    /\ doc = Array(<<Infinity(TRUE), NaN, Infinity(FALSE)>>)
    /\ sflags = {"infinity_number"}
    /\ indent = 0
    /\ ostream = Text("[-infinity,null,infinity]")

\* C15: no partial result on error.  When a parse fails with a syntax_error the
\* value object given to the parser (istream >> v, the v of parse and parse5)
\* holds nothing of the tree built so far: it is as it was before the parse.
C15_NoPartialResult == (pc = "failed") => (v = Null)

\* The strict parser failed on "[1,x" and left the array of 1 and null in v.
C15_PartialTree ==
    /\ pc = "failed"
    /\ flags = {"finished"}
    /\ istream.txt = Text("[1,x")
    /\ v = Array(<<Integer(1), Null>>)

(***************************************************************************)
(* Indexing                                                                *)
(***************************************************************************)
\* Whether val is an array with an element at index.
HasElement(val, index) == (val.kind = "array") /\ (0 <= index) /\ (index < Len(val.a))

\* Whether val is an object with an entry at key.
HasEntry(val, key) == (val.kind = "object") /\ (\E i \in 1..Len(val.o) : val.o[i].key = key)

\* The value of the entry of val at key.
EntryAt(val, key) == val.o[CHOOSE i \in 1..Len(val.o) : val.o[i].key = key].val

\* C16: at(index, default) returns the element when the value is an array and
\* 0 <= index < size, at(key, default) returns the entry when the value is an
\* object containing key; in every other case they return the default; neither
\* throws nor changes the value.
C16_DefaultedIndexing ==
    /\ (ret.op = "at(index,default)") =>
          /\ ret.out.thrown = ""
          /\ ~ret.out.ub
          /\ v = ret.before
          /\ ret.out.val = IF HasElement(ret.before, ret.index)
                            THEN ret.before.a[ret.index + 1] ELSE ret.arg
    /\ (ret.op = "at(key,default)") =>
          /\ ret.out.thrown = ""
          /\ ~ret.out.ub
          /\ v = ret.before
          /\ ret.out.val = IF HasEntry(ret.before, ret.key)
                            THEN EntryAt(ret.before, ret.key) ELSE ret.arg

\* at(1, 7) on the array [1] returned the default 7 and left the array as it was.
C16_Witness ==
    /\ ret.op = "at(index,default)"
    /\ v = Array(<<Integer(1)>>)
    /\ ret.index = 1
    /\ ret.out = Returns(Integer(7))

\* C17: on an array, at(index) and operator[](index) with an index that is not
\* less than the size of the array throw.
C17_OutOfRangeThrows ==
    ((ret.op \in {"at(index)", "[index]"}) /\ (ret.before.kind = "array")
        /\ (ret.index >= Len(ret.before.a)))
    => (ret.out.thrown # "")

\* at(1) on the empty array returned null.
C17_ReturnsNull ==
    /\ ret.op = "at(index)"
    /\ ret.before = Array(<<>>)
    /\ ret.index = 1
    /\ ret.out = Returns(Null)

(***************************************************************************)
(* Array modifiers                                                         *)
(***************************************************************************)
\* Whether a holds integers in strictly ascending order, all of them in 1..n.
AscendingSerials(a, n) ==
    /\ \A i \in 1..Len(a) : (a[i].kind = "integer") /\ (a[i].i \in 1..n)
    /\ \A i \in 1..(Len(a) - 1) : a[i].i < a[i + 1].i

\* C18: append adds the element at the end (the size grows by one, the elements
\* before keep index and value), erase(i) removes element i and moves every later
\* element down by one, clear leaves the array empty; an array that started empty
\* holds appended elements only, each at most once, in the order of their appends.
C18_ArrayMutation ==
    /\ (ret.op = "append") =>
          /\ v.kind = "array"
          /\ Len(v.a) = Len(ret.before.a) + 1
          /\ v.a[Len(v.a)] = ret.arg
          /\ \A j \in 1..Len(ret.before.a) : v.a[j] = ret.before.a[j]
    /\ (ret.op = "erase") =>
          /\ v.kind = "array"
          /\ Len(v.a) = Len(ret.before.a) - 1
          /\ \A j \in 1..Len(v.a) :
                v.a[j] = IF j <= ret.index THEN ret.before.a[j] ELSE ret.before.a[j + 1]
    /\ (ret.op = "clear") => (v = Array(<<>>))
    /\ ((doc = Array(<<>>)) /\ (v.kind = "array")) => AscendingSerials(v.a, serial)

\* Two elements were appended to an empty array and the first one erased.
C18_Witness ==
    /\ doc = Array(<<>>)
    /\ ret.op = "erase"
    /\ ret.index = 0
    /\ ret.before = Array(<<Integer(1), Integer(2)>>)
    /\ v = Array(<<Integer(2)>>)

(***************************************************************************)
(* Typed get                                                               *)
(***************************************************************************)
IsNumber(val) == val.kind \in {"integer", "float"}

IsZero(val) ==
    IF val.kind = "integer" THEN val.i = 0 ELSE (val.cls = "finite") /\ (val.dig = <<>>)

\* The digits of the finite double f in front of the decimal point.
WholePart(f) ==
    IF f.exp >= 0 THEN (IF f.dig = <<>> THEN <<>> ELSE f.dig \o [k \in 1..f.exp |-> 0])
    ELSE IF Len(f.dig) + f.exp > 0 THEN [k \in 1..(Len(f.dig) + f.exp) |-> f.dig[k]]
    ELSE <<>>

\* The decimal digits of -n, for n <= 0.
RECURSIVE NegDigits(_)
NegDigits(n) ==
    IF n = 0 THEN <<>>
    ELSE Append(NegDigits((n + ((10 - (n % 10)) % 10)) \div 10), (10 - (n % 10)) % 10)

\* The decimal digits of the int i without its sign (<<>> for 0).
IntDigits(i) == NegDigits(IF i > 0 THEN 0 - i ELSE i)

\* The number val converted to the numeric type T is r: an int keeps its value,
\* a double loses its fraction when T is int.
SameNumber(val, T, r) ==
    IF T = "int"
    THEN /\ r.kind = "integer"
         /\ IF val.kind = "integer" THEN r = val
            ELSE r.i = IntegerOf(val.neg, WholePart(val))
    ELSE /\ r.kind = "float"
         /\ IF val.kind = "float" THEN r = val
            ELSE r = Float(val.i < 0, IntDigits(val.i), 0)

\* The position of the decimal point in the text t (0 when there is none).
PointAt(t) == IF \E i \in 1..Len(t) : t[i] = DOT THEN CHOOSE i \in 1..Len(t) : t[i] = DOT ELSE 0

\* The text t is a decimal numeral -?d+(.d+)? without a needless leading zero.
IsDecimalText(t) ==
    LET u == IF (t # <<>>) /\ (t[1] = MINUS) THEN Tail(t) ELSE t
        p == PointAt(u)
        whole == IF p = 0 THEN u ELSE SubSeq(u, 1, p - 1)
        frac == IF p = 0 THEN <<>> ELSE SubSeq(u, p + 1, Len(u))
    IN  /\ whole # <<>>
        /\ \A i \in 1..Len(whole) : is_digit(whole[i])
        /\ \A i \in 1..Len(frac) : is_digit(frac[i])
        /\ (p # 0) => (frac # <<>>)
        /\ (Len(whole) > 1) => (whole[1] # ZERO)

\* The number the decimal text t writes.
TextNumber(t) ==
    LET negative == t[1] = MINUS
        u == IF negative THEN Tail(t) ELSE t
        p == PointAt(u)
        digits == [i \in 1..(IF p = 0 THEN Len(u) ELSE Len(u) - 1) |->
                        (IF (p = 0) \/ (i < p) THEN u[i] ELSE u[i + 1]) - ZERO]
    IN  Float(negative, digits, IF p = 0 THEN 0 ELSE 0 - (Len(u) - p))

\* The text t is the decimal text of the number val: that of an int writes the
\* int, that of a finite double printed with at most 15 significant digits
\* writes it with six digits after the point, and these write the double itself
\* when it has no more than six.
DecimalTextOf(val, t) ==
    IF val.kind = "integer"
    THEN IsDecimalText(t) /\ (PointAt(t) = 0)
         /\ (TextNumber(t) = Float(val.i < 0, IntDigits(val.i), 0))
         /\ ((val.i = 0) => (t = <<ZERO>>))
    ELSE ((val.cls = "finite") /\ (Len(WholePart(val)) + 6 <= 15)) =>
            /\ IsDecimalText(t)
            /\ PointAt(t) = Len(t) - 6
            /\ (val.exp >= 0 - 6) => (TextNumber(t) = val)

\* C19: get<T>() with auto-conversion off converts a stored number to a numeric T
\* and to bool (not zero is true) and throws std::bad_cast for number to string,
\* string to number and string to bool; with auto-conversion on a number converts
\* to its decimal text and null to "null" or to false; null to a numeric T throws
\* in both modes; arrays and objects always throw.
C19_TypedGet ==
    (ret.op = "get") =>
        LET val == ret.before
            T == ret.arg.T
            on == ret.arg.auto_conversion
            out == ret.out
        IN  /\ v = val
            /\ (~on /\ IsNumber(val) /\ (T \in {"int", "double"})) =>
                    /\ out.thrown = ""
                    /\ ~out.ub => SameNumber(val, T, out.val)
            /\ (~on /\ IsNumber(val) /\ (T = "bool")) => (out = Returns(Boolean(~IsZero(val))))
            /\ (~on /\ IsNumber(val) /\ (T = "string")) => (out.thrown = "bad_cast")
            /\ (~on /\ (val.kind = "string") /\ (T \in {"int", "double", "bool"})) =>
                    (out.thrown = "bad_cast")
            /\ (on /\ IsNumber(val) /\ (T = "string")) =>
                    /\ out.thrown = ""
                    /\ out.val.kind = "string"
                    /\ DecimalTextOf(val, out.val.s)
            /\ (on /\ (val = Null) /\ (T = "string")) => (out = Returns(String(Text("null"))))
            /\ (on /\ (val = Null) /\ (T = "bool")) => (out = Returns(Boolean(FALSE)))
            /\ ((val = Null) /\ (T \in {"int", "double"})) => (out.thrown = "bad_cast")
            /\ (val.kind \in {"array", "object"}) => (out.thrown = "bad_cast")

\* get<std::string, true>() of the double 1.5 returned "1.500000".
C19_Witness ==
    /\ ret.op = "get"
    /\ ret.before = Float(FALSE, <<1, 5>>, 0 - 1)
    /\ ret.arg = [T |-> "string", auto_conversion |-> TRUE]
    /\ ret.out = Returns(String(Text("1.500000")))

(***************************************************************************)
(* Options                                                                 *)
(***************************************************************************)
\* The manipulator m names the flag f.
Names(m, f) == (m.kind = "flags") /\ (f \in m.S \cup m.C)

\* The flags of mask that the last manipulator of c naming them sets; a flag no
\* manipulator names is clear, as in parser<0> and stringifier<0, 0>.
FlagsLastSet(c, mask) ==
    {f \in mask :
        \E i \in 1..Len(c) :
            /\ Names(c[i], f)
            /\ f \in c[i].S
            /\ \A j \in (i + 1)..Len(c) : ~Names(c[j], f)}

\* The indent of the last indent manipulator of c; 0 without one.
LastIndent(c) ==
    IF \E i \in 1..Len(c) : c[i].kind = "indent"
    THEN c[CHOOSE i \in 1..Len(c) :
                (c[i].kind = "indent") /\ (\A j \in (i + 1)..Len(c) : c[j].kind # "indent")].I
    ELSE 0

\* The manipulators of c but the last.
Front(c) == SubSeq(c, 1, Len(c) - 1)

\* C20: after any sequence of manipulators each flag is set iff the last
\* manipulator naming it sets it, the indent is that of the last indent
\* manipulator, a flag manipulator leaves the indent and an indent manipulator
\* the flags as they were, and the flags stay inside parse_mask for a parser and
\* inside {infinity_number, not_a_number, crlf_newline} for a stringifier.
C20_LastWins ==
    /\ (pc = "parser") =>
          /\ flags = FlagsLastSet(chain, parse_mask)
          /\ flags \subseteq json5_rules \cup {"finished"}
          /\ (chain[Len(chain)].kind = "indent") => (flags = FlagsLastSet(Front(chain), parse_mask))
    /\ (pc = "stringifier") =>
          /\ sflags = FlagsLastSet(chain, stringify_mask)
          /\ sflags \subseteq {"infinity_number", "not_a_number", "crlf_newline"}
          /\ indent = LastIndent(chain)
          /\ (chain[Len(chain)].kind = "indent") =>
                (sflags = FlagsLastSet(Front(chain), stringify_mask))
          /\ (chain[Len(chain)].kind = "flags") => (indent = LastIndent(Front(chain)))

\* ostream << rule::json5() << rule::space_indent<2>() << rule::no_infinity_number()
\* gave a stringifier with the flag not_a_number alone and the indent 2.
C20_Witness ==
    /\ pc = "stringifier"
    /\ chain = << manipulator_flags(json5_rules, {}), manipulator_indent(2),
                  manipulator_flags({}, {"infinity_number"}) >>
    /\ sflags = {"not_a_number"}
    /\ indent = 2

(***************************************************************************)
(* Strict extraction                                                       *)
(***************************************************************************)
\* The kind of value the member as_<name> asks for.
RequestedKind(name) ==
    CASE name = "as_null" -> "null"
      [] name = "as_boolean" -> "boolean"
      [] name = "as_number" -> "float"
      [] name = "as_integer" -> "integer"
      [] name = "as_string" -> "string"
      [] name = "as_array" -> "array"
      [] OTHER -> "object"

\* The kind of value held in the alternative S (none for long and float, which
\* no value of the model holds).
KindOf(S) ==
    CASE S = "monostate" -> "null"
      [] S = "bool" -> "boolean"
      [] S = "int" -> "integer"
      [] S = "double" -> "float"
      [] S \in {"long", "float"} -> "none"
      [] OTHER -> S

\* The call threw when val is not of the kind asked for and returned val otherwise.
Strictly(kind, val, out) ==
    IF val.kind = kind THEN out = Returns(val) ELSE out.thrown = "bad_cast"

\* C21 as stated: every extraction throws when the value is not of the case asked
\* for (as_number taking either numeric case) and returns the stored payload
\* otherwise.
C21_StrictExtraction ==
    /\ (ret.op \in AsMembers \ {"as_number"}) =>
            Strictly(RequestedKind(ret.op), ret.before, ret.out)
    /\ (ret.op = "as_number") =>
            IF IsNumber(ret.before)
            THEN (ret.out.thrown = "") /\ SameNumber(ret.before, "double", ret.out.val)
            ELSE ret.out.thrown = "bad_cast"
    /\ (ret.op = "get_strict") => Strictly(KindOf(ret.arg.T), ret.before, ret.out)

\* C21 amended: as_null, as_boolean, as_string, as_array, as_object and
\* get_strict<T> throw std::bad_cast when the value is not of the case asked for
\* and return the stored payload otherwise; as_number and as_integer throw only
\* for a value that is neither an int nor a double, and convert a stored number
\* to double and to int (a double loses its fraction); the value is not changed.
C21_StrictExtractionOfNumbers ==
    /\ (ret.op \in AsMembers \cup {"get_strict"}) => (v = ret.before)
    /\ (ret.op \in AsMembers \ {"as_number", "as_integer"}) =>
            Strictly(RequestedKind(ret.op), ret.before, ret.out)
    /\ (ret.op = "get_strict") => Strictly(KindOf(ret.arg.T), ret.before, ret.out)
    /\ (ret.op \in {"as_number", "as_integer"}) =>
            IF IsNumber(ret.before)
            THEN /\ ret.out.thrown = ""
                 /\ ~ret.out.ub =>
                        SameNumber(ret.before, IF ret.op = "as_integer" THEN "int" ELSE "double",
                                   ret.out.val)
            ELSE ret.out.thrown = "bad_cast"

\* as_integer() of a double with a fraction returned its whole part.
C21_Witness ==
    /\ ret.op = "as_integer"
    /\ ret.before.kind = "float"
    /\ ret.before.exp < 0
    /\ ret.out.thrown = ""
    /\ ~ret.out.ub
    /\ ret.out.val.kind = "integer"

(***************************************************************************)
(* skip_spaces                                                             *)
(***************************************************************************)
\* The sets of comment flags.
CommentFlags == SUBSET {"single_line_comment", "multi_line_comment"}

\* What skip_spaces skipped of st before the character r.ch it returned.
Skipped(st, r) ==
    IF r.ch = EOF THEN SubSeq(st.txt, st.pos, Len(st.txt))
    ELSE SubSeq(st.txt, st.pos, r.st.pos - 2)

\* C22 for skip_spaces called with the flags F on the stream st: what it skipped
\* is whitespace and complete comments enabled by F, and what it returned is the
\* character behind that, which is not whitespace.
SkipsOnlyBlanks(F, st) ==
    LET r == skip_spaces(F, st) IN
    (~r.err.thrown) =>
        /\ BlankFrom(F, Skipped(st, r), 1)
        /\ r.ch \notin {TAB, LF, CR, SPACE}
        /\ (r.ch # EOF) => (r.ch = st.txt[r.st.pos - 1])

\* C22: skip_spaces, called at any position of an input under any set of comment
\* flags, consumes only whitespace and complete enabled comments and returns the
\* first character behind them (or EOF), so that no other character is skipped.
C22_SkipSpaces ==
    (pc = "text") =>
        \A F \in CommentFlags : \A p \in 1..(Len(istream.txt) + 1) :
            SkipsOnlyBlanks(F, [istream EXCEPT !.pos = p])

\* C22 without a comment flag holds: skip_spaces then consumes whitespace only.
C22_SkipSpacesStrict ==
    (pc = "text") =>
        \A p \in 1..(Len(istream.txt) + 1) : SkipsOnlyBlanks({}, [istream EXCEPT !.pos = p])

(***************************************************************************)
(* Termination                                                             *)
(***************************************************************************)
\* t is a document of ClosedTexts, valid under the rules F, cut off behind its
\* opening character: its object, array or string (and, where the cut falls into
\* one, a block comment) is still open at the end of t.
OpenAtEnd(F, t) ==
    \E T \in ClosedTexts :
        /\ Len(t) >= 1
        /\ Len(t) < Len(T)
        /\ t = SubSeq(T, 1, Len(t))
        /\ ~do_parse(F \cup {"finished"}, Stream(T), Null).err.thrown

\* The sets of flags of parse and parse5, with and without finished.
CallFlags == {{}, {"finished"}, json5_rules, json5_rules \cup {"finished"}}

\* The call that gave the outcome r on the text t ended: it returned a value or
\* threw a syntax_error, having read no more than the bytes of t.
Ended(t, r) ==
    /\ r.err.thrown \in BOOLEAN
    /\ r.err.thrown => (r.err.context \in {"value", "comment", "null", "boolean", "number",
                                            "string", "array", "object", "object-key"})
    /\ Consumed(r.st) \in 0..Len(t)

\* The call has returned a value or thrown a syntax_error, the latter with EOF when
\* the input ended inside an object, array, string or block comment.
Returned ==
    IF OpenAtEnd(flags, istream.txt)
    THEN (pc = "failed") /\ error.thrown /\ (error.ch = EOF)
    ELSE \/ (pc = "parsed") /\ ~error.thrown
         \/ (pc = "failed") /\ error.thrown

\* C23: every call of parse or parse5 on a finite input ends, with a value or with
\* a syntax_error; an input that ends inside a block comment, string, array or
\* object ends the call with a syntax_error that carries EOF.
C23_Termination ==
    (pc \in {"parsed", "failed"}) =>
        /\ flags \in CallFlags
        /\ Ended(istream.txt, [st |-> istream, err |-> error])
        /\ Returned

\* A call on an input that ends inside a string threw syntax_error(EOF, "string").
C23_Witness ==
    /\ pc = "failed"
    /\ OpenAtEnd(flags, istream.txt)
    /\ error = syntax_error(EOF, "string")

(***************************************************************************)
(* String grammar                                                          *)
(***************************************************************************)
\* The byte a one-letter escape stands for.
EscapedByte(c) ==
    CASE c = Ord("b") -> BS
      [] c = Ord("f") -> FF
      [] c = Ord("n") -> LF
      [] c = Ord("r") -> CR
      [] c = Ord("t") -> TAB
      [] OTHER -> c

\* The reading of the string of t that starts behind its opening quote q at index
\* i, by the grammar of C24 under the flags F: [fault, closed, s], fault when one
\* of the errors of C24 comes first, closed when the closing quote does (s is then
\* the content, line continuations dropped), neither when t ends or a \u escape
\* comes first.
RECURSIVE StringRead(_, _, _, _, _)
StringRead(F, t, q, i, s) ==
    LET out(fault, closed) == [fault |-> fault, closed |-> closed, s |-> s] IN
    IF i > Len(t) THEN out(FALSE, FALSE)
    ELSE IF t[i] = q THEN out(FALSE, TRUE)
    ELSE IF t[i] < 32 THEN out(TRUE, FALSE)
    ELSE IF t[i] # BACKSLASH THEN StringRead(F, t, q, i + 1, Append(s, t[i]))
    ELSE IF i = Len(t) THEN out(FALSE, FALSE)
    ELSE IF t[i + 1] = Ord("u") THEN out(FALSE, FALSE)
    ELSE IF t[i + 1] = SQUOTE
    THEN IF "single_quote" \in F THEN StringRead(F, t, q, i + 2, Append(s, SQUOTE))
         ELSE out(TRUE, FALSE)
    ELSE IF t[i + 1] \in {DQUOTE, BACKSLASH, SLASH, Ord("b"), Ord("f"), Ord("n"), Ord("r"), Ord("t")}
    THEN StringRead(F, t, q, i + 2, Append(s, EscapedByte(t[i + 1])))
    ELSE IF t[i + 1] \in {CR, LF}
    THEN IF "multi_line_string" \notin F THEN out(TRUE, FALSE)
         ELSE IF (t[i + 1] = CR) /\ (i + 2 <= Len(t)) /\ (t[i + 2] = LF)
         THEN StringRead(F, t, q, i + 3, s)
         ELSE StringRead(F, t, q, i + 2, s)
    ELSE out(TRUE, FALSE)

\* C24 for the document t that starts with a quote, parsed with the flags F with
\* the outcome r.
StringGrammar(F, t, r) ==
    LET q == t[1]
        read == StringRead(F, t, q, 2, <<>>)
    IN  IF (q = SQUOTE) /\ ("single_quote" \notin F)
        THEN r.err = syntax_error(SQUOTE, "string")
        ELSE /\ read.fault => (r.err.thrown /\ (r.err.context = "string"))
             /\ read.closed => /\ ~(r.err.thrown /\ (r.err.context = "string"))
                                /\ r.v = String(read.s)

\* The sets of the two flags of C24.
StringFlags == SUBSET {"single_quote", "multi_line_string"}

IsStringText(t) == (t # <<>>) /\ (t[1] \in {DQUOTE, SQUOTE})

\* C24: in a string an unescaped character below 0x20, a backslash before a
\* character that is no legal escape, and a single-quote delimiter or a \' escape
\* without the single_quote flag each raise a syntax_error; a backslash before CR,
\* CR LF or LF is dropped as a line continuation with the multi_line_string flag
\* and is a syntax_error without it.
C24_StringErrors ==
    /\ ((pc = "text") /\ IsStringText(istream.txt)) =>
            \A F \in StringFlags :
                StringGrammar(F, istream.txt, do_parse(F, istream, Null))
    /\ ((pc \in {"parsed", "failed"}) /\ IsStringText(istream.txt)) =>
            StringGrammar(flags, istream.txt, [err |-> error, v |-> v])

\* parse threw on the CR behind a backslash of a string, the flag being off.
C24_Witness ==
    /\ pc = "failed"
    /\ "multi_line_string" \notin flags
    /\ IsStringText(istream.txt)
    /\ StringRead(flags, istream.txt, DQUOTE, 2, <<>>).fault
    /\ error = syntax_error(CR, "string")

(***************************************************************************)
(* Unquoted keys                                                           *)
(***************************************************************************)
IsIdentifierStart(c) == (c \in {UNDERSCORE, DOLLAR}) \/ is_alpha(c)

\* The index behind the identifier characters of t from index i on.
RECURSIVE IdentifierEnd(_, _)
IdentifierEnd(t, i) ==
    IF (i <= Len(t)) /\ (IsIdentifierStart(t[i]) \/ is_digit(t[i])) THEN IdentifierEnd(t, i + 1)
    ELSE i

\* t is an object whose first key, not quoted, follows the '{' at once.
IsUnquotedKeyText(t) ==
    (Len(t) >= 2) /\ (t[1] = LBRACE) /\ (t[2] \notin {DQUOTE, SQUOTE, RBRACE, SPACE, TAB, CR, LF, SLASH})

\* The first key of t is an identifier closed by ':' at once.
IsIdentifierKey(t) ==
    /\ IsIdentifierStart(t[2])
    /\ IdentifierEnd(t, 2) <= Len(t)
    /\ t[IdentifierEnd(t, 2)] = COLON

\* C25 for the text t parsed with the outcome [err, v].
UnquotedKeyGrammar(t, r) ==
    IF IsIdentifierKey(t)
    THEN /\ ~(r.err.thrown /\ (r.err.context = "object-key") /\ (r.v.o = <<>>))
         /\ (~r.err.thrown) => HasEntry(r.v, SubSeq(t, 2, IdentifierEnd(t, 2) - 1))
    ELSE /\ r.err.thrown
         /\ r.err.context = "object-key"
         /\ r.err.ch = IF ~IsIdentifierStart(t[2]) THEN t[2]
                        ELSE IF IdentifierEnd(t, 2) <= Len(t) THEN t[IdentifierEnd(t, 2)]
                        ELSE EOF

\* C25: with the unquoted_key flag a key that does not start with a quote is
\* accepted only if it is an identifier (a letter, '_' or '$', then those or
\* digits) closed by ':' at once; the key parsed is that identifier; anything
\* else before the ':' is a syntax_error of context "object-key".
C25_UnquotedKey ==
    ((pc \in {"parsed", "failed"}) /\ ("unquoted_key" \in flags) /\ IsUnquotedKeyText(istream.txt))
        => UnquotedKeyGrammar(istream.txt, [err |-> error, v |-> v])

\* C25 for the keys of at least one character.
C25_NonEmptyUnquotedKey ==
    ((pc \in {"parsed", "failed"}) /\ ("unquoted_key" \in flags) /\ IsUnquotedKeyText(istream.txt)
        /\ (istream.txt[2] # COLON))
        => UnquotedKeyGrammar(istream.txt, [err |-> error, v |-> v])

(***************************************************************************)
(* Pushback                                                                *)
(***************************************************************************)
\* Flag sets of C26 besides those of parse and parse5: trailing commas, hex
\* numbers, line continuations and comments without unquoted keys and single quotes.
PushbackFlags ==
    { {"trailing_comma", "hexadecimal", "multi_line_string", "single_line_comment",
       "multi_line_comment"} }

\* No unget() on st followed another unget() without a read in between.
OneLevel(st) == (~st.dbl) /\ (st.ung <= 1)

\* C26: during a parse, under any flag set and for any input, unget() is never
\* called twice without a read in between, so that what is read again is the last
\* character read.
C26_OneLevelPushback ==
    /\ (pc = "text") => \A F \in PushbackFlags : OneLevel(do_parse(F, istream, Null).st)
    /\ (pc \in {"parsed", "failed", "read"}) => OneLevel(istream)

\* parse stored an integer and pushed back, once, the character behind it that
\* ended the number: the caller reads that character next.
C26_Witness ==
    /\ pc = "parsed"
    /\ "trailing_comma" \in flags
    /\ istream.ung = 1
    /\ ~istream.fail
    /\ v.kind = "integer"

(***************************************************************************)
(* Stringify, then parse                                                   *)
(***************************************************************************)
\* The text in istream was written by stringify or stringify5 (G the flags of the
\* preset) with an indent and a newline option, no other manipulator.
StringifiedBy(G) ==
    /\ ostream # <<>>
    /\ istream.txt = ostream
    /\ sflags \ {"crlf_newline"} = G \cap stringify_mask

\* The text written by stringify was parsed by parse, or the text written by
\* stringify5 by parse5, in finished mode.
Reparsed ==
    /\ Parsed
    /\ \/ StringifiedBy({}) /\ (flags = {"finished"})
       \/ StringifiedBy(json5_rules) /\ (flags = json5_rules \cup {"finished"})

\* C27: the text stringify writes for any value, indent and newline option is
\* accepted by parse in finished mode, and the text stringify5 writes by parse5.
C27_OutputReparses == Reparsed => ((pc = "parsed") /\ ~error.thrown)

\* parse5 accepted the text stringify5 wrote, with an indent of two spaces and CR LF
\* newlines, for an object that holds an array.
C27_Witness ==
    /\ Reparsed
    /\ pc = "parsed"
    /\ flags = json5_rules \cup {"finished"}
    /\ indent = 2
    /\ "crlf_newline" \in sflags
    /\ doc.kind = "object"
    /\ \E k \in 1..Len(doc.o) : doc.o[k].val.kind = "array"

(***************************************************************************)
(* Round trip of the trees without a double                                *)
(***************************************************************************)
\* val is built from null, booleans, ints, strings, arrays and objects only.
RECURSIVE IsExact(_)
IsExact(val) ==
    IF val.kind = "float" THEN FALSE
    ELSE IF val.kind = "array" THEN \A k \in 1..Len(val.a) : IsExact(val.a[k])
    ELSE IF val.kind = "object" THEN \A k \in 1..Len(val.o) : IsExact(val.o[k].val)
    ELSE TRUE

\* C28: for every value built from null, booleans, ints (INT_MIN and INT_MAX
\* included), strings of any bytes, arrays and objects, parse(stringify(v, opts))
\* succeeds and compares equal to v, for every indent and newline option.
C28_ExactRoundTrip ==
    (Parsed /\ StringifiedBy({}) /\ (flags = {"finished"}) /\ IsExact(doc))
        => /\ pc = "parsed"
           /\ value_equal(v, doc)
           /\ v = doc

\* The round trip of an array that holds a string with bytes to escape and bytes
\* from 0x80 on, INT_MIN and INT_MAX, written with a tab indent and CR LF.
C28_Witness ==
    /\ pc = "parsed"
    /\ StringifiedBy({})
    /\ flags = {"finished"}
    /\ indent = 0 - 1
    /\ "crlf_newline" \in sflags
    /\ doc = Array(<<String(<<1, 34, 92, 128, 255>>), Integer(INT_MIN), Integer(INT_MAX)>>)
    /\ v = doc

(***************************************************************************)
(* Digits of a number literal                                              *)
(***************************************************************************)
\* t has a decimal digit.
HasDigit(t) == \E i \in 1..Len(t) : is_digit(t[i])

\* t is made of the characters of a decimal literal only.
IsLiteralText(t) ==
    (t # <<>>) /\ (\A i \in 1..Len(t) : is_digit(t[i]) \/ (t[i] \in {MINUS, PLUS, DOT, Ord("e"), Ord("E")}))

\* C29: a number literal the parser accepts, under any flag set, has at least one
\* digit (or is the infinity or NaN keyword): ".", "-." and "+." are syntax errors.
C29_DigitRequired ==
    /\ ((pc = "text") /\ IsLiteralText(istream.txt) /\ ~HasDigit(istream.txt)) =>
            \A F \in SUBSET {"leading_decimal_point", "trailing_decimal_point", "explicit_plus_sign"} :
                do_parse(F \cup {"finished"}, istream, Null).err.thrown
    /\ ((pc = "parsed") /\ IsLiteralText(istream.txt)) => HasDigit(istream.txt)

\* C29 without the two decimal point flags together: the literal needs a digit.
C29_DigitRequiredOneFlag ==
    ((pc = "text") /\ IsLiteralText(istream.txt) /\ ~HasDigit(istream.txt)) =>
        \A F \in SUBSET {"leading_decimal_point", "trailing_decimal_point", "explicit_plus_sign"} :
            ({"leading_decimal_point", "trailing_decimal_point"} \subseteq F)
                \/ do_parse(F \cup {"finished"}, istream, Null).err.thrown

(***************************************************************************)
(* Literals with a fraction or an exponent                                 *)
(***************************************************************************)
\* The index of the first character of cs in t (0 without one).
FirstOf(t, cs) ==
    IF \E i \in 1..Len(t) : t[i] \in cs
    THEN CHOOSE i \in 1..Len(t) : (t[i] \in cs) /\ (\A j \in 1..(i - 1) : t[j] \notin cs)
    ELSE 0

\* The fraction of the decimal literal t has a digit other than 0.
NonZeroFraction(t) ==
    LET p == FirstOf(t, {DOT})
        e == FirstOf(t, {Ord("e"), Ord("E")})
    IN  (p # 0) /\ (\E i \in (p + 1)..Len(t) : ((e = 0) \/ (i < e)) /\ is_digit(t[i]) /\ (t[i] # ZERO))

\* The exponent of the decimal literal t has a digit other than 0.
NonZeroExponent(t) ==
    LET e == FirstOf(t, {Ord("e"), Ord("E")})
    IN  (e # 0) /\ (\E i \in (e + 1)..Len(t) : is_digit(t[i]) /\ (t[i] # ZERO))

\* The number of digits of the fraction of the decimal literal t.
FractionLength(t) ==
    LET p == FirstOf(t, {DOT}) IN IF p = 0 THEN 0 ELSE DigitRun(t, p + 1)

\* C30: a decimal literal whose fraction is not all zeros, or whose exponent is
\* not zero, never yields an Integer, however many digits the fraction or the
\* exponent has.
C30_FractionNeverInteger ==
    (Parsed /\ LiteralParts(istream.txt).valid
            /\ (NonZeroFraction(istream.txt) \/ NonZeroExponent(istream.txt)))
        => ((pc = "parsed") /\ (v.kind = "float"))

\* C30 for a fraction of at most 19 digits, which unsigned long long holds.
C30_ShortFractionNeverInteger ==
    (Parsed /\ LiteralParts(istream.txt).valid /\ (FractionLength(istream.txt) <= 19)
            /\ (NonZeroFraction(istream.txt) \/ NonZeroExponent(istream.txt)))
        => ((pc = "parsed") /\ (v.kind = "float"))

====
